---- MODULE Spec2Model ----
(***************************************************************************)
(* Verification model of kharkiv-metro-rp: the metro graph and shortest    *)
(* path finder, the timetable store, the schedule-aware router, the bot's  *)
(* conversation state machine and its reminder callbacks.                  *)
(*                                                                         *)
(* Datetimes are seconds counted from midnight of day 0 in the configured  *)
(* timezone; a clock time (dt.time) is a number of seconds since midnight. *)
(***************************************************************************)
EXTENDS Integers, Sequences, FiniteSets, TLC

VARIABLES
    schedules,          \* timetable store: the rows of table `schedules`
    pc,                 \* position of the routing request
    request,            \* the find_route arguments of the request
    result,             \* what find_route returned or raised
    message,            \* text of the last message update dispatched
    state,              \* FSM state of the chat session (get_state)
    data,               \* FSM data of the chat session (get_data)
    reply,              \* the bot's answer to the last message
    clock,              \* now(): current time
    active_routes,      \* _active_routes: route key -> (route, line_groups)
    reminder_kb,        \* route key -> buttons under the route message in the chat
    pending_reminders,  \* pending_reminders: user id -> entry
    tasks,              \* process_reminder coroutines suspended in asyncio.sleep
    sent,               \* reminder messages delivered, in order
    reminders,          \* rows of table `reminders`
    armed,              \* history: every accepted arm callback, in order
    fsm_state,          \* rows of table `fsm_state`: session key -> row
    calls,              \* history: the update_data calls issued, in order
    _next_departure_cache,      \* MetroRouter._next_departure_cache: key -> entries
    _previous_departure_cache   \* MetroRouter._previous_departure_cache: key -> entries

vars == <<schedules, pc, request, result, message, state, data, reply, clock,
          active_routes, reminder_kb, pending_reminders, tasks, sent, reminders, armed,
          fsm_state, calls, _next_departure_cache, _previous_departure_cache>>

routerVars == <<schedules, pc, request, result>>
fsmVars == <<message, state, data, reply>>
reminderVars == <<pending_reminders, tasks, sent, reminders, armed>>
storageVars == <<fsm_state, calls>>
cacheVars == <<_next_departure_cache, _previous_departure_cache>>

None == "None"

\* None where the code holds a time or a datetime
NoTime == 0 - 1

(***************************************************************************)
(* Network model: three lines, transfer pairs.                             *)
(***************************************************************************)
LineOrder == <<"K", "S", "O">>

Lines == {LineOrder[i] : i \in 1..Len(LineOrder)}

StationsByLine ==
    [K |-> <<"k1", "k2", "k3">>,
     S |-> <<"s1", "s2", "s3">>,
     O |-> <<"o1", "o2", "o3">>]

\* Variant of transfers in which each pair of transfer stations is joined
\* one way only, round the three lines
transfers_OneWay ==
    [k2 |-> "s2", s3 |-> "o1", o2 |-> "k3"]

transfers ==
    [k2 |-> "s2", s2 |-> "k2",
     k3 |-> "o2", o2 |-> "k3",
     s3 |-> "o1", o1 |-> "s3"]

StationIds == UNION {{StationsByLine[l][i] : i \in 1..Len(StationsByLine[l])} : l \in Lines}

\* create_stations: id -> Station(line, order, transfer_to)
stations ==
    [id \in StationIds |->
        LET l == CHOOSE x \in Lines : \E i \in 1..Len(StationsByLine[x]) : StationsByLine[x][i] = id
            o == CHOOSE i \in 1..Len(StationsByLine[l]) : StationsByLine[l][i] = id
        IN [id |-> id, line |-> l, order |-> o,
            transfer_to |-> IF id \in DOMAIN transfers THEN transfers[id] ELSE None]]

\* Python's order on station id strings (the heap compares (distance, id)).
IdOrder == <<"k1", "k2", "k3", "o1", "o2", "o3", "s1", "s2", "s3">>

IdRank(id) == CHOOSE i \in 1..Len(IdOrder) : IdOrder[i] = id

DayTypes == {"weekday", "weekend"}

(***************************************************************************)
(* Clock arithmetic.                                                       *)
(***************************************************************************)
SecPerDay == 24 * 3600

DateOf(t) == t \div SecPerDay

TimeOf(t) == t % SecPerDay

HourOf(t) == TimeOf(t) \div 3600

MinuteOf(t) == (TimeOf(t) % 3600) \div 60

\* dt.time(hour, minute) as seconds since midnight
ClockTime(h, m) == h * 3600 + m * 60

EntryTime(e) == ClockTime(e.hour, e.minutes)

\* dt.datetime.combine(date, time, tzinfo)
Combine(date, t) == date * SecPerDay + t

\* int(seconds / 60): truncation toward zero
TruncMinutes(secs) == IF secs >= 0 THEN secs \div 60 ELSE -((-secs) \div 60)

RECURSIVE SumSeq(_)
SumSeq(s) == IF s = <<>> THEN 0 ELSE Head(s) + SumSeq(Tail(s))

Take(s, n) == IF Len(s) <= n THEN s ELSE SubSeq(s, 1, n)

(***************************************************************************)
(* Graph (graph.py).                                                       *)
(***************************************************************************)
HOP_MINUTES == 2

TRANSFER_TIME_MINUTES == 3

Infinity == 1000000

Edge(to, w, t) == [to_station_id |-> to, weight |-> w, is_transfer |-> t]

\* MetroGraph._build_graph: node id -> its outgoing edges
nodes ==
    [id \in StationIds |->
        LET l == StationsByLine[stations[id].line]
            o == stations[id].order
        IN  (IF o < Len(l) THEN {Edge(l[o + 1], HOP_MINUTES, FALSE)} ELSE {})
            \cup (IF o > 1 THEN {Edge(l[o - 1], HOP_MINUTES, FALSE)} ELSE {})
            \cup (IF id \in DOMAIN transfers
                  THEN {Edge(transfers[id], TRANSFER_TIME_MINUTES, TRUE)} ELSE {})]

\* Variant of HeapMin that pops the largest tuple, as a max-heap does
HeapMin_Largest(pq) ==
    CHOOSE p \in pq : \A q \in pq :
        \/ p[1] > q[1]
        \/ (p[1] = q[1] /\ IdRank(p[2]) >= IdRank(q[2]))

\* Variant of HeapMin for a heap of (station_id, distance) tuples: the
\* smallest id comes first, whatever its distance
HeapMin_ById(pq) ==
    CHOOSE p \in pq : \A q \in pq :
        \/ IdRank(p[2]) < IdRank(q[2])
        \/ (p[2] = q[2] /\ p[1] <= q[1])

\* heapq.heappop on (distance, station_id) tuples
HeapMin(pq) ==
    CHOOSE p \in pq : \A q \in pq :
        \/ p[1] < q[1]
        \/ (p[1] = q[1] /\ IdRank(p[2]) <= IdRank(q[2]))

\* The while loop of find_shortest_path; returns the `previous` and
\* `distances` maps at the moment the loop ends.
RECURSIVE DijkstraLoop(_, _, _, _, _)
DijkstraLoop(pq, distances, previous, visited, end_id) ==
    IF pq = {} THEN [distances |-> distances, previous |-> previous]
    ELSE
        LET top == HeapMin(pq)
            rest == pq \ {top}
            current_dist == top[1]
            current_id == top[2]
        IN  IF current_id \in visited
            THEN DijkstraLoop(rest, distances, previous, visited, end_id)
            ELSE IF current_id = end_id
            THEN [distances |-> distances, previous |-> previous]
            ELSE
                LET visited1 == visited \cup {current_id}
                    better == {e \in nodes[current_id] :
                                 /\ e.to_station_id \notin visited1
                                 /\ current_dist + e.weight < distances[e.to_station_id]}
                    NewDist(n) == current_dist + (CHOOSE e \in better : e.to_station_id = n).weight
                    improved == {e.to_station_id : e \in better}
                IN  DijkstraLoop(
                        rest \cup {<<NewDist(n), n>> : n \in improved},
                        [n \in StationIds |-> IF n \in improved THEN NewDist(n) ELSE distances[n]],
                        [n \in StationIds |-> IF n \in improved THEN current_id ELSE previous[n]],
                        visited1, end_id)

\* Path reconstruction: follow `previous` back from the end.
RECURSIVE PathTo(_, _)
PathTo(previous, current) ==
    IF current = None THEN <<>> ELSE Append(PathTo(previous, previous[current]), current)

\* find_shortest_path returning None
NoPath == [kind |-> "None"]

\* MetroGraph.find_shortest_path: None, or (path, distance)
find_shortest_path(start_id, end_id) ==
    IF start_id \notin DOMAIN nodes \/ end_id \notin DOMAIN nodes THEN NoPath
    ELSE
        LET r == DijkstraLoop({<<0, start_id>>},
                              [n \in StationIds |-> IF n = start_id THEN 0 ELSE Infinity],
                              [n \in StationIds |-> None], {}, end_id)
        IN  IF r.distances[end_id] = Infinity THEN NoPath
            ELSE [kind |-> "path", path |-> PathTo(r.previous, end_id),
                  weight |-> r.distances[end_id]]

\* Station ids a caller may pass: the stations and one id that is no station.
RequestIds == StationIds \cup {"zz"}

\* All shortest paths, computed once.
ShortestPaths == [a \in RequestIds, b \in RequestIds |-> find_shortest_path(a, b)]

(***************************************************************************)
(* Timetable store (database.py).  `schedules` maps                        *)
(* <<station_id, direction_station_id, day_type>> to the set of its rows,  *)
(* each [hour, minutes].                                                   *)
(***************************************************************************)
Entry(h, m) == [hour |-> h, minutes |-> m]

Rows(sched, station_id, direction_station_id, day_type) ==
    IF <<station_id, direction_station_id, day_type>> \in DOMAIN sched
    THEN sched[<<station_id, direction_station_id, day_type>>]
    ELSE {}

\* ORDER BY hour, minutes
RECURSIVE OrderByTime(_)
OrderByTime(rows) ==
    IF rows = {} THEN <<>>
    ELSE LET first == CHOOSE e \in rows : \A f \in rows :
                        e.hour < f.hour \/ (e.hour = f.hour /\ e.minutes <= f.minutes)
         IN  <<first>> \o OrderByTime(rows \ {first})

\* Variant of get_next_departures that goes on with the first entries of
\* the day when fewer than `limit` are left
get_next_departures_Wraps(sched, station_id, direction_station_id, day_type, after_time, limit) ==
    LET h == after_time \div 3600
        m == (after_time % 3600) \div 60
        rows == Rows(sched, station_id, direction_station_id, day_type)
        later == {e \in rows : e.hour > h \/ (e.hour = h /\ e.minutes >= m)}
    IN  Take(OrderByTime(later) \o OrderByTime(rows \ later), limit)

\* MetroDatabase.get_next_departures; after_time is a dt.time
get_next_departures(sched, station_id, direction_station_id, day_type, after_time, limit) ==
    LET h == after_time \div 3600
        m == (after_time % 3600) \div 60
    IN  Take(OrderByTime({e \in Rows(sched, station_id, direction_station_id, day_type) :
                            e.hour > h \/ (e.hour = h /\ e.minutes >= m)}),
             limit)

DayRows(sched, day_type) == UNION {sched[k] : k \in {x \in DOMAIN sched : x[3] = day_type}}

\* MetroDatabase.get_last_departure_time: a dt.time, or None
get_last_departure_time(sched, day_type) ==
    LET rows == DayRows(sched, day_type)
    IN  IF rows = {} THEN NoTime
        ELSE LET max_hour == CHOOSE h \in {e.hour : e \in rows} : \A e \in rows : e.hour <= h
                 mins == {e.minutes : e \in {x \in rows : x.hour = max_hour}}
                 max_minutes == CHOOSE m \in mins : \A n \in mins : n <= m
             IN  ClockTime(max_hour, max_minutes)

\* MetroDatabase.get_first_departure_time: a dt.time, or None
get_first_departure_time(sched, day_type) ==
    LET rows == DayRows(sched, day_type)
    IN  IF rows = {} THEN NoTime
        ELSE LET min_hour == CHOOSE h \in {e.hour : e \in rows} : \A e \in rows : e.hour >= h
                 mins == {e.minutes : e \in {x \in rows : x.hour = min_hour}}
                 min_minutes == CHOOSE m \in mins : \A n \in mins : n >= m
             IN  ClockTime(min_hour, min_minutes)

EARLY_PLANNING_MINUTES == 90

\* Variant of is_metro_open that never reports the metro closed
is_metro_open_NeverClosed(sched, day_type, check_time) == TRUE

\* MetroDatabase.is_metro_open with the default early_planning_minutes;
\* check_time is a dt.time (seconds kept)
is_metro_open(sched, day_type, check_time) ==
    LET last_departure == get_last_departure_time(sched, day_type)
        first_departure == get_first_departure_time(sched, day_type)
    IN  IF last_departure = NoTime \/ first_departure = NoTime THEN TRUE
        ELSE LET \* first_dt - timedelta(minutes): date arithmetic, then hour and minute only
                 earliest_planning_dt == SecPerDay + first_departure - EARLY_PLANNING_MINUTES * 60
                 earliest_planning == ClockTime(HourOf(earliest_planning_dt),
                                                MinuteOf(earliest_planning_dt))
             IN  earliest_planning <= check_time /\ check_time <= last_departure

(***************************************************************************)
(* Router (router.py).                                                     *)
(***************************************************************************)
\* MetroRouter._get_day_type: datetime.weekday() >= 5; day 0 is a Monday
_get_day_type(current_dt) == IF DateOf(current_dt) % 7 >= 5 THEN "weekend" ELSE "weekday"

\* MetroRouter._get_line_terminals: line -> (first_terminal_id, last_terminal_id)
_get_line_terminals ==
    [line \in Lines |->
        LET line_stations == {sid \in StationIds : stations[sid].line = line}
            first_terminal == CHOOSE sid \in line_stations :
                                \A o \in line_stations : stations[sid].order <= stations[o].order
            last_terminal == CHOOSE sid \in line_stations :
                                \A o \in line_stations : stations[sid].order >= stations[o].order
        IN  <<first_terminal, last_terminal>>]

\* The scan of _find_terminal_in_path_fast: index of the last station of the
\* unbroken run of `line` stations that starts at start_idx.
RECURSIVE LastOnLine(_, _, _, _)
LastOnLine(path, i, line, last_station_idx) ==
    IF i > Len(path) THEN last_station_idx
    ELSE IF stations[path[i]].line = line THEN LastOnLine(path, i + 1, line, i)
    ELSE last_station_idx

\* MetroRouter._find_terminal_in_path_fast (indices are 1-based here)
_find_terminal_in_path_fast(path, start_idx, line, line_terminals) ==
    LET first_station_idx == start_idx
        last_station_idx == LastOnLine(path, start_idx, line, start_idx)
    IN  IF last_station_idx > first_station_idx
        THEN IF stations[path[last_station_idx]].order > stations[path[first_station_idx]].order
             THEN line_terminals[line][2]
             ELSE line_terminals[line][1]
        ELSE path[start_idx]

\* MetroRouter._get_next_departures: the memoized lookup returns what the
\* store returns for the same key
_get_next_departures(sched, station_id, direction_station_id, day_type, after_time, limit) ==
    get_next_departures(sched, station_id, direction_station_id, day_type, after_time, limit)

\* The datetime of clock time `t` on the date of `after`, rolled to the next
\* day when that lies before `after`
CombineOnOrAfter(after, t) ==
    IF Combine(DateOf(after), t) < after
    THEN Combine(DateOf(after), t) + SecPerDay
    ELSE Combine(DateOf(after), t)

\* Variant of _calculate_arrival_time that guesses a 5 minute hop instead of
\* reporting that no schedule is available
_calculate_arrival_time_Guess(sched, station_id, direction, day_type, after_time) ==
    IF _get_next_departures(sched, station_id, direction, day_type,
                            ClockTime(HourOf(after_time), MinuteOf(after_time)), 1) = <<>>
    THEN after_time + 5 * 60
    ELSE CombineOnOrAfter(after_time,
            EntryTime(_get_next_departures(sched, station_id, direction, day_type,
                        ClockTime(HourOf(after_time), MinuteOf(after_time)), 1)[1]))

\* MetroRouter._calculate_arrival_time: a datetime, or NoTime
_calculate_arrival_time(sched, station_id, direction, day_type, after_time) ==
    IF _get_next_departures(sched, station_id, direction, day_type,
                            ClockTime(HourOf(after_time), MinuteOf(after_time)), 1) = <<>>
    THEN NoTime
    ELSE CombineOnOrAfter(after_time,
            EntryTime(_get_next_departures(sched, station_id, direction, day_type,
                        ClockTime(HourOf(after_time), MinuteOf(after_time)), 1)[1]))

RouteSegment(from_station, to_station, departure_time, arrival_time, is_transfer, duration_minutes) ==
    [from_station |-> from_station, to_station |-> to_station,
     departure_time |-> departure_time, arrival_time |-> arrival_time,
     is_transfer |-> is_transfer, duration_minutes |-> duration_minutes]

\* The aggregation at the end of both route builders
MakeRoute(segments, num_transfers) ==
    LET timed == /\ segments # <<>>
                 /\ segments[1].departure_time # NoTime
                 /\ segments[Len(segments)].arrival_time # NoTime
    IN  [kind |-> "route",
         segments |-> segments,
         total_duration_minutes |->
            IF timed
            THEN TruncMinutes(segments[Len(segments)].arrival_time - segments[1].departure_time)
            ELSE SumSeq([i \in 1..Len(segments) |-> segments[i].duration_minutes]),
         num_transfers |-> num_transfers,
         departure_time |-> IF timed THEN segments[1].departure_time ELSE NoTime,
         arrival_time |-> IF timed THEN segments[Len(segments)].arrival_time ELSE NoTime]

MetroClosedError == [kind |-> "MetroClosed"]

\* duration of a transfer segment
TRANSFER_DURATION == 3

\* travel time assumed when the arrival lookup finds nothing
FALLBACK_TRAVEL_MINUTES == 2

\* Variant of the transfer branch that leaves current_time where it was
TransferStep_ClockNotAdvanced(from_id, to_id, acc) ==
    [acc EXCEPT
       !.segments = Append(@, RouteSegment(from_id, to_id, acc.current_time,
                                           acc.current_time + TRANSFER_DURATION * 60,
                                           TRUE, TRANSFER_DURATION)),
       !.num_transfers = @ + 1,
       !.current_line = None,
       !.direction = None]

\* Loop body of _build_route_with_schedule, transfer branch.  acc carries the
\* loop's locals; acc.closed records a raised MetroClosedError.
TransferStep(from_id, to_id, acc) ==
    LET arrival == acc.current_time + TRANSFER_DURATION * 60
    IN  [acc EXCEPT
           !.segments = Append(@, RouteSegment(from_id, to_id, acc.current_time, arrival,
                                               TRUE, TRANSFER_DURATION)),
           !.num_transfers = @ + 1,
           !.current_time = arrival,
           !.current_line = None,
           !.direction = None]

\* Train branch, its end: the segment from path[i] to path[i + 1] leaving at
\* current_time, given what _calculate_arrival_time found
AppendTrainSegment(path, i, acc, direction, current_time, found) ==
    [acc EXCEPT
       !.segments = Append(@, RouteSegment(path[i], path[i + 1], current_time,
                        IF found # NoTime THEN found
                        ELSE current_time + FALLBACK_TRAVEL_MINUTES * 60,
                        FALSE,
                        IF found # NoTime THEN TruncMinutes(found - current_time)
                        ELSE FALLBACK_TRAVEL_MINUTES)),
       !.current_time = IF found # NoTime THEN found
                        ELSE current_time + FALLBACK_TRAVEL_MINUTES * 60,
       !.current_line = stations[path[i]].line,
       !.direction = direction]

\* Train branch, travel time: look up the arrival at the next station
RideHop(sched, path, day_type, i, acc, direction, current_time) ==
    AppendTrainSegment(path, i, acc, direction, current_time,
        _calculate_arrival_time(sched, path[i + 1], direction, day_type, current_time))

\* Train branch at the start of a line: take the next departure, or raise
\* MetroClosedError when there is none
BoardTrain(sched, path, day_type, i, acc, direction, next_departures) ==
    IF next_departures = <<>>
    THEN [acc EXCEPT !.closed = TRUE]
    ELSE RideHop(sched, path, day_type, i, acc, direction,
                 CombineOnOrAfter(acc.current_time, EntryTime(next_departures[1])))

\* The direction of the line run that starts at path[i]
DirectionAt(path, i) ==
    _find_terminal_in_path_fast(path, i, stations[path[i]].line, _get_line_terminals)

\* Loop body of _build_route_with_schedule, train branch
TrainStep(sched, path, day_type, i, acc) ==
    IF acc.current_line = None \/ stations[path[i]].line # acc.current_line
    THEN BoardTrain(sched, path, day_type, i, acc, DirectionAt(path, i),
            _get_next_departures(sched, path[i], DirectionAt(path, i), day_type,
                ClockTime(HourOf(acc.current_time), MinuteOf(acc.current_time)), 1))
    ELSE RideHop(sched, path, day_type, i, acc, acc.direction, acc.current_time)

\* One iteration of the loop of _build_route_with_schedule
DepartStep(sched, path, day_type, i, acc) ==
    IF stations[path[i]].transfer_to = path[i + 1]
    THEN TransferStep(path[i], path[i + 1], acc)
    ELSE TrainStep(sched, path, day_type, i, acc)

RECURSIVE DepartLoop(_, _, _, _, _)
DepartLoop(sched, path, day_type, i, acc) ==
    IF i > Len(path) - 1 \/ acc.closed THEN acc
    ELSE CHOOSE r \in {DepartLoop(sched, path, day_type, i + 1, next) :
                         next \in {DepartStep(sched, path, day_type, i, acc)}} : TRUE

\* MetroRouter._build_route_with_schedule: a Route, or MetroClosedError raised
_build_route_with_schedule(sched, path, start_time, day_type) ==
    IF ~is_metro_open(sched, day_type, TimeOf(start_time)) THEN MetroClosedError
    ELSE CHOOSE r \in
            {IF acc.closed THEN MetroClosedError
             ELSE CHOOSE m \in {MakeRoute(segments, acc.num_transfers) :
                                   segments \in {acc.segments}} : TRUE :
                acc \in {DepartLoop(sched, path, day_type, 1,
                            [segments |-> <<>>, num_transfers |-> 0, current_time |-> start_time,
                             current_line |-> None, direction |-> None, closed |-> FALSE])}} : TRUE

\* Variant of find_route that checks the service hours before it looks for
\* a graph path
find_route_HoursFirst(sched, from_station_id, to_station_id, departure_time, day_type_arg) ==
    LET day_type == IF day_type_arg = None THEN _get_day_type(departure_time) ELSE day_type_arg
        path_result == ShortestPaths[from_station_id, to_station_id]
    IN  IF ~is_metro_open(sched, day_type, TimeOf(departure_time)) THEN MetroClosedError
        ELSE IF path_result.kind = "None" THEN [kind |-> "None"]
        ELSE CHOOSE r \in
                {IF /\ route.kind = "route"
                    /\ route.arrival_time # NoTime
                    /\ ~is_metro_open(sched, day_type, TimeOf(route.arrival_time))
                 THEN MetroClosedError
                 ELSE route :
                    route \in {_build_route_with_schedule(sched, path_result.path,
                                                          departure_time, day_type)}} : TRUE

\* MetroRouter.find_route without arrival_by: a Route, None, or MetroClosedError
find_route(sched, from_station_id, to_station_id, departure_time, day_type_arg) ==
    LET day_type == IF day_type_arg = None THEN _get_day_type(departure_time) ELSE day_type_arg
        path_result == ShortestPaths[from_station_id, to_station_id]
    IN  IF path_result.kind = "None" THEN [kind |-> "None"]
        ELSE IF ~is_metro_open(sched, day_type, TimeOf(departure_time)) THEN MetroClosedError
        ELSE CHOOSE r \in
                {IF /\ route.kind = "route"
                    /\ route.arrival_time # NoTime
                    /\ ~is_metro_open(sched, day_type, TimeOf(route.arrival_time))
                 THEN MetroClosedError
                 ELSE route :
                    route \in {_build_route_with_schedule(sched, path_result.path,
                                                          departure_time, day_type)}} : TRUE

(***************************************************************************)
(* Arrive-by routing.  The store's get_previous_departures is taken from   *)
(* its contract: the entries at or before a clock time, latest first.      *)
(***************************************************************************)
RECURSIVE Reverse(_)
\* list(reversed(s))
Reverse(s) == IF s = <<>> THEN <<>> ELSE Append(Reverse(Tail(s)), Head(s))

\* Variant of get_previous_departures that keeps the ascending order of
\* get_next_departures: the earliest entries first
get_previous_departures_EarliestFirst(sched, station_id, direction_station_id, day_type, before_time, limit) ==
    LET h == before_time \div 3600
        m == (before_time % 3600) \div 60
    IN  Take(OrderByTime({e \in Rows(sched, station_id, direction_station_id, day_type) :
                            e.hour < h \/ (e.hour = h /\ e.minutes <= m)}),
             limit)

\* MetroDatabase.get_previous_departures; before_time is a dt.time
get_previous_departures(sched, station_id, direction_station_id, day_type, before_time, limit) ==
    LET h == before_time \div 3600
        m == (before_time % 3600) \div 60
    IN  Take(Reverse(OrderByTime({e \in Rows(sched, station_id, direction_station_id, day_type) :
                                    e.hour < h \/ (e.hour = h /\ e.minutes <= m)})),
             limit)

\* MetroRouter._get_previous_departures: the memoized lookup returns what
\* the store returns for the same key
_get_previous_departures(sched, station_id, direction_station_id, day_type, before_time, limit) ==
    get_previous_departures(sched, station_id, direction_station_id, day_type, before_time, limit)

\* The datetime of clock time `t` on the date of `before`, rolled to the
\* day before when that lies after `before`
CombineOnOrBefore(before, t) ==
    IF Combine(DateOf(before), t) > before
    THEN Combine(DateOf(before), t) - SecPerDay
    ELSE Combine(DateOf(before), t)

\* Search window of _find_departure_before
DEPARTURE_SEARCH_LIMIT == 5

\* No departure found: (None, None)
NoDeparture == [departure_time |-> NoTime, arrival_time |-> NoTime]

\* One candidate of _find_departure_before, given the arrival it implies
DepartureCandidate(departure_dt, arrival_dt, arrival_by) ==
    IF arrival_dt # NoTime /\ arrival_dt <= arrival_by
    THEN [departure_time |-> departure_dt, arrival_time |-> arrival_dt]
    ELSE NoDeparture

RECURSIVE FirstDepartureBefore(_, _, _, _, _, _)
\* The for loop of _find_departure_before over the candidates left
FirstDepartureBefore(sched, to_station_id, direction, day_type, arrival_by, candidates) ==
    IF candidates = <<>> THEN NoDeparture
    ELSE CHOOSE r \in
        {IF c # NoDeparture THEN c
         ELSE FirstDepartureBefore(sched, to_station_id, direction, day_type, arrival_by,
                                   Tail(candidates)) :
            c \in {DepartureCandidate(
                      CombineOnOrBefore(arrival_by, EntryTime(Head(candidates))),
                      _calculate_arrival_time(sched, to_station_id, direction, day_type,
                          CombineOnOrBefore(arrival_by, EntryTime(Head(candidates)))),
                      arrival_by)}} : TRUE

\* Variant of _find_departure_before that tries the latest candidate only
_find_departure_before_LatestOnly(sched, from_station_id, to_station_id, direction, day_type, arrival_by) ==
    FirstDepartureBefore(sched, to_station_id, direction, day_type, arrival_by,
        _get_previous_departures(sched, from_station_id, direction, day_type,
                                 TimeOf(arrival_by), 1))

\* MetroRouter._find_departure_before
_find_departure_before(sched, from_station_id, to_station_id, direction, day_type, arrival_by) ==
    FirstDepartureBefore(sched, to_station_id, direction, day_type, arrival_by,
        _get_previous_departures(sched, from_station_id, direction, day_type,
                                 TimeOf(arrival_by), DEPARTURE_SEARCH_LIMIT))

\* Variant of the arrive-by transfer branch that does not count the transfer
ArrivalTransferStep_NotCounted(from_id, to_id, acc) ==
    [acc EXCEPT
       !.segments = Append(@, RouteSegment(from_id, to_id,
                                           acc.current_time - TRANSFER_DURATION * 60,
                                           acc.current_time, TRUE, TRANSFER_DURATION)),
       !.current_time = acc.current_time - TRANSFER_DURATION * 60,
       !.current_line = None,
       !.direction = None]

\* Loop body of _build_route_arrival_by, transfer branch: the walk ends at
\* current_time and starts TRANSFER_DURATION minutes earlier
ArrivalTransferStep(from_id, to_id, acc) ==
    [acc EXCEPT
       !.segments = Append(@, RouteSegment(from_id, to_id,
                                           acc.current_time - TRANSFER_DURATION * 60,
                                           acc.current_time, TRUE, TRANSFER_DURATION)),
       !.num_transfers = @ + 1,
       !.current_time = acc.current_time - TRANSFER_DURATION * 60,
       !.current_line = None,
       !.direction = None]

\* Train branch of _build_route_arrival_by, its end: the segment from
\* from_id to to_id given what _find_departure_before found
ArrivalTrainSegment(from_id, to_id, current_time, found) ==
    IF found.departure_time # NoTime /\ found.arrival_time # NoTime
    THEN IF TruncMinutes(found.arrival_time - found.departure_time) <= 0
         THEN RouteSegment(from_id, to_id, found.departure_time,
                           found.departure_time + FALLBACK_TRAVEL_MINUTES * 60,
                           FALSE, FALLBACK_TRAVEL_MINUTES)
         ELSE RouteSegment(from_id, to_id, found.departure_time, found.arrival_time, FALSE,
                           TruncMinutes(found.arrival_time - found.departure_time))
    ELSE RouteSegment(from_id, to_id, current_time - FALLBACK_TRAVEL_MINUTES * 60,
                      current_time, FALSE, FALLBACK_TRAVEL_MINUTES)

\* Train branch: append the segment and move current_time to its departure
AppendArrivalSegment(acc, line, direction, segment) ==
    [acc EXCEPT
       !.segments = Append(@, segment),
       !.current_time = segment.departure_time,
       !.current_line = line,
       !.direction = direction]

\* Train branch once the direction is known
ArrivalRideHop(sched, from_id, to_id, day_type, acc, direction) ==
    AppendArrivalSegment(acc, stations[from_id].line, direction,
        ArrivalTrainSegment(from_id, to_id, acc.current_time,
            _find_departure_before(sched, from_id, to_id, direction, day_type,
                                   acc.current_time)))

\* Loop body of _build_route_arrival_by, train branch; i is the index of the
\* station the hop leaves from
ArrivalTrainStep(sched, path, day_type, i, acc) ==
    IF acc.current_line = None \/ stations[path[i]].line # acc.current_line
    THEN ArrivalRideHop(sched, path[i], path[i + 1], day_type, acc, DirectionAt(path, i))
    ELSE ArrivalRideHop(sched, path[i], path[i + 1], day_type, acc, acc.direction)

\* One iteration of the loop of _build_route_arrival_by
ArrivalStep(sched, path, day_type, i, acc) ==
    IF stations[path[i]].transfer_to = path[i + 1]
    THEN ArrivalTransferStep(path[i], path[i + 1], acc)
    ELSE ArrivalTrainStep(sched, path, day_type, i, acc)

RECURSIVE ArrivalLoop(_, _, _, _, _)
\* The loop of _build_route_arrival_by, from the last hop back to the first
ArrivalLoop(sched, path, day_type, i, acc) ==
    IF i < 1 THEN acc
    ELSE CHOOSE r \in {ArrivalLoop(sched, path, day_type, i - 1, next) :
                         next \in {ArrivalStep(sched, path, day_type, i, acc)}} : TRUE

\* MetroRouter._build_route_arrival_by: a Route, or MetroClosedError raised
_build_route_arrival_by(sched, path, arrival_by, day_type) ==
    IF ~is_metro_open(sched, day_type, TimeOf(arrival_by)) THEN MetroClosedError
    ELSE CHOOSE r \in
            {MakeRoute(Reverse(acc.segments), acc.num_transfers) :
                acc \in {ArrivalLoop(sched, path, day_type, Len(path) - 1,
                            [segments |-> <<>>, num_transfers |-> 0, current_time |-> arrival_by,
                             current_line |-> None, direction |-> None, closed |-> FALSE])}} : TRUE

\* Variant of find_route with arrival_by that returns the route built
\* without comparing its arrival with arrival_by
find_route_arrival_by_Unchecked(sched, from_station_id, to_station_id, arrival_by, day_type_arg) ==
    LET day_type == IF day_type_arg = None THEN _get_day_type(arrival_by) ELSE day_type_arg
        path_result == ShortestPaths[from_station_id, to_station_id]
    IN  IF path_result.kind = "None" THEN [kind |-> "None"]
        ELSE CHOOSE r \in
                {IF route.kind # "route" THEN route
                 ELSE IF /\ route.departure_time # NoTime
                         /\ ~is_metro_open(sched, day_type, TimeOf(route.departure_time))
                 THEN MetroClosedError
                 ELSE route :
                    route \in {_build_route_arrival_by(sched, path_result.path,
                                                       arrival_by, day_type)}} : TRUE

\* MetroRouter.find_route with arrival_by: a Route, None, or MetroClosedError
find_route_arrival_by(sched, from_station_id, to_station_id, arrival_by, day_type_arg) ==
    LET day_type == IF day_type_arg = None THEN _get_day_type(arrival_by) ELSE day_type_arg
        path_result == ShortestPaths[from_station_id, to_station_id]
    IN  IF path_result.kind = "None" THEN [kind |-> "None"]
        ELSE CHOOSE r \in
                {IF route.kind # "route" THEN route
                 ELSE IF route.arrival_time # NoTime /\ route.arrival_time > arrival_by
                 THEN [kind |-> "None"]
                 ELSE IF /\ route.departure_time # NoTime
                         /\ ~is_metro_open(sched, day_type, TimeOf(route.departure_time))
                 THEN MetroClosedError
                 ELSE route :
                    route \in {_build_route_arrival_by(sched, path_result.path,
                                                       arrival_by, day_type)}} : TRUE

(***************************************************************************)
(* Bot texts (i18n.py, constants.py): the English buttons, the commands,   *)
(* and the station and line names a user may send.                         *)
(***************************************************************************)
BACK == "Back"

CANCEL == "Cancel"

MENU_ROUTE == "Route"

MENU_SCHEDULE == "Schedule"

MENU_STATIONS == "Stations"

LANGUAGE_BUTTONS == {"Ukrainska", "English"}

Commands == {"/start", "/about", "/lang", "/route", "/schedule", "/stations", "/stats"}

\* get_line_display_name: internal line -> button text
LINE_INTERNAL_TO_DISPLAY == [K |-> "Red line", S |-> "Blue line", O |-> "Green line"]

\* LINE_DISPLAY_TO_INTERNAL.get(text): the internal line, or None
LINE_DISPLAY_TO_INTERNAL(text) ==
    IF \E l \in Lines : LINE_INTERNAL_TO_DISPLAY[l] = text
    THEN CHOOSE l \in Lines : LINE_INTERNAL_TO_DISPLAY[l] = text
    ELSE None

\* DAY_TYPE_DISPLAY_TO_INTERNAL.get(text): the day type, or None
DAY_TYPE_DISPLAY_TO_INTERNAL(text) ==
    IF text = "Weekdays" THEN "weekday"
    ELSE IF text = "Weekends" THEN "weekend"
    ELSE None

\* Station.name_en
name_en ==
    [k1 |-> "Kholodna Hora", k2 |-> "Maidan", k3 |-> "Sportyvna",
     s1 |-> "Istorychnyi", s2 |-> "Universytet", s3 |-> "Barabashova",
     o1 |-> "Metrobudivnykiv", o2 |-> "Derzhprom", o3 |-> "Peremoha"]

TIME_CHOICES == <<"Current time", "-20 min", "-10 min", "+10 min", "+20 min", "Custom time">>

\* Texts typed at the custom-time prompt, character by character
CustomTimeTexts ==
    [t \in {"12:30", "24:00", "7:05", "12:60", "1:5", " 1:15"} |->
        CASE t = "12:30" -> <<"1", "2", ":", "3", "0">>
          [] t = "24:00" -> <<"2", "4", ":", "0", "0">>
          [] t = "7:05" -> <<"7", ":", "0", "5">>
          [] t = "12:60" -> <<"1", "2", ":", "6", "0">>
          [] t = "1:5" -> <<"1", ":", "5">>
          [] OTHER -> <<" ", "1", ":", "1", "5">>]

Digits == <<"0", "1", "2", "3", "4", "5", "6", "7", "8", "9">>

\* \d
isdigit(c) == \E i \in 1..Len(Digits) : Digits[i] = c

\* str.strip(): without the leading and trailing blanks
strip(chars) ==
    LET inked == {i \in 1..Len(chars) : chars[i] # " "}
    IN  IF inked = {} THEN <<>>
        ELSE SubSeq(chars, CHOOSE i \in inked : \A j \in inked : i <= j,
                           CHOOSE i \in inked : \A j \in inked : i >= j)

\* re.match(r"^\d{1,2}:\d{2}$", time_input), minutes of one digit accepted
re_match_time_OneDigitMinute(chars) ==
    \E colon \in 2..3 :
        /\ Len(chars) \in {colon + 1, colon + 2}
        /\ chars[colon] = ":"
        /\ \A i \in 1..Len(chars) : i # colon => isdigit(chars[i])

\* re.match(r"^\d{1,2}:\d{2}$", time_input): one or two digits, a colon, two
\* digits and nothing else
re_match_time(chars) ==
    \E colon \in 2..3 :
        /\ Len(chars) = colon + 2
        /\ chars[colon] = ":"
        /\ \A i \in 1..Len(chars) : i # colon => isdigit(chars[i])

RECURSIVE int(_)
\* int() of a string of digits
int(chars) ==
    IF chars = <<>> THEN 0
    ELSE 10 * int(SubSeq(chars, 1, Len(chars) - 1))
         + (CHOOSE i \in 1..Len(Digits) : Digits[i] = chars[Len(chars)]) - 1

\* time_input.split(":") of an input with one colon
split(chars) ==
    LET colon == CHOOSE i \in 1..Len(chars) : chars[i] = ":"
    IN  <<SubSeq(chars, 1, colon - 1), SubSeq(chars, colon + 1, Len(chars))>>

\* Custom-time inputs that pass the format check: text -> the hour and the
\* minute read from it
CustomTimeInputs ==
    [t \in {x \in DOMAIN CustomTimeTexts : re_match_time(strip(CustomTimeTexts[x]))} |->
        [hour |-> int(split(strip(CustomTimeTexts[t]))[1]),
         minute |-> int(split(strip(CustomTimeTexts[t]))[2])]]

\* Texts the user sends
Texts ==
    Commands \cup {BACK, CANCEL, MENU_ROUTE, MENU_SCHEDULE, MENU_STATIONS, "English"}
    \cup {LINE_INTERNAL_TO_DISPLAY["K"]}
    \cup {name_en["k1"], name_en["k3"]}
    \cup {"Current time", "+10 min", "Custom time", "Weekdays"}
    \cup DOMAIN CustomTimeTexts
    \cup {"hello"}

SeqToSet(q) == {q[i] : i \in 1..Len(q)}

\* get_stations_by_line: names of the stations of a line, in dict order
get_stations_by_line(line_key) ==
    IF line_key \notin Lines THEN <<>>
    ELSE [i \in 1..Len(StationsByLine[line_key]) |-> name_en[StationsByLine[line_key][i]]]

\* get_stations_by_line_except
get_stations_by_line_except(line_key, exclude_station) ==
    SelectSeq(get_stations_by_line(line_key), LAMBDA n : n # exclude_station)

\* MetroGraph.find_station_by_name: the station id, or None.  No text a user
\* sends here is a proper substring of a station name or contains one, so
\* the partial match finds what the name index finds.
find_station_by_name(name) ==
    IF \E sid \in StationIds : name_en[sid] = name
    THEN CHOOSE sid \in StationIds : name_en[sid] = name
    ELSE None

(***************************************************************************)
(* FSM context (aiogram FSMContext over storage.py).  `data` holds every   *)
(* key; an absent key is <<>>, a present one <<value>>.                    *)
(***************************************************************************)
DataKeys ==
    {"active_message_id", "valid_lines", "from_line", "valid_stations", "from_station",
     "to_line", "to_station", "valid_day_types", "day_type", "schedule_line",
     "schedule_station"}

\* state.clear(): no data
EmptyData == [k \in DataKeys |-> <<>>]

\* data.get(key, default)
Get(d, key, default) == IF Len(d[key]) = 0 THEN default ELSE d[key][1]

\* state.update_data(**patch)
update_data(d, patch) == [k \in DataKeys |-> IF k \in DOMAIN patch THEN <<patch[k]>> ELSE d[k]]

\* msg.message_id of a message the bot sent
MSG_ID == "msg"

valid_lines == [i \in 1..Len(LineOrder) |-> LINE_INTERNAL_TO_DISPLAY[LineOrder[i]]]

valid_day_types == <<"Weekdays", "Weekends">>

Answer(text, keyboard, items) ==
    [via |-> "answer", text |-> text, keyboard |-> keyboard, items |-> items]

NoReply == [via |-> "none", text |-> None, keyboard |-> None, items |-> <<>>]

\* The pattern shared by the prompting handlers: edit the active message,
\* or, when there is none or the edit fails, send a new message and store
\* its id.  Returns the data and the reply.
Prompt(d, edit_ok, text, keyboard, items, extra) ==
    IF Len(d["active_message_id"]) > 0 /\ edit_ok
    THEN [data |-> update_data(d, extra),
          reply |-> [Answer(text, keyboard, items) EXCEPT !.via = "edit"]]
    ELSE [data |-> update_data(d, [active_message_id |-> MSG_ID] @@ extra),
          reply |-> Answer(text, keyboard, items)]

NoExtra == [x \in {} |-> <<>>]

(***************************************************************************)
(* Dispatch (main.register_handlers): the first registered handler whose   *)
(* filters match takes the message.                                        *)
(***************************************************************************)
\* RouteStates, in registration order, with their back, cancel and process
\* handlers; waiting_for_custom_time registers no cancel handler
RouteHandlers ==
    [s \in {"RouteStates:waiting_for_from_line", "RouteStates:waiting_for_from_station",
            "RouteStates:waiting_for_to_line", "RouteStates:waiting_for_to_station",
            "RouteStates:waiting_for_time_choice", "RouteStates:waiting_for_day_type",
            "RouteStates:waiting_for_custom_time"} |->
        CASE s = "RouteStates:waiting_for_from_line" ->
                <<"back_from_line", "cancel_from_line", "process_from_line">>
          [] s = "RouteStates:waiting_for_from_station" ->
                <<"back_from_station", "cancel_from_station", "process_from_station">>
          [] s = "RouteStates:waiting_for_to_line" ->
                <<"back_to_line", "cancel_to_line", "process_to_line">>
          [] s = "RouteStates:waiting_for_to_station" ->
                <<"back_to_station", "cancel_to_station", "process_to_station">>
          [] s = "RouteStates:waiting_for_time_choice" ->
                <<"back_from_time_choice", "cancel_from_time_choice", "process_time_choice">>
          [] s = "RouteStates:waiting_for_day_type" ->
                <<"back_from_day_type_route", "cancel_from_day_type_route",
                  "process_day_type_route">>
          [] OTHER ->
                <<"back_from_custom_time", None, "process_custom_time">>]

ScheduleHandlers ==
    [s \in {"ScheduleStates:waiting_for_line", "ScheduleStates:waiting_for_station",
            "ScheduleStates:waiting_for_day_type"} |->
        CASE s = "ScheduleStates:waiting_for_line" ->
                <<"back_from_schedule_line", "cancel_from_schedule_line", "process_schedule_line">>
          [] s = "ScheduleStates:waiting_for_station" ->
                <<"back_from_schedule_station", "cancel_from_schedule_station",
                  "process_schedule_station">>
          [] OTHER ->
                <<"back_from_day_type", "cancel_from_day_type", "process_day_type">>]

StationsHandlers ==
    [s \in {"StationsStates:waiting_for_line"} |->
        <<"back_from_stations_line", "cancel_stations", "process_line_selection">>]

\* The handlers registered for one state: F.text == back, F.text == cancel,
\* then the handler without a text filter
StateHandler(handlers, text) ==
    IF text = BACK THEN handlers[1]
    ELSE IF text = CANCEL /\ handlers[2] # None THEN handlers[2]
    ELSE handlers[3]

\* States the bot sets
States ==
    {None, "waiting_for_language"} \cup DOMAIN RouteHandlers \cup DOMAIN ScheduleHandlers
    \cup DOMAIN StationsHandlers

\* Name of the handler that takes message `text` in FSM state `st`, or
\* "unhandled"
Handler(st, text) ==
    IF text = "/stats" THEN "cmd_stats"
    ELSE IF text = "/route" THEN "cmd_route"
    ELSE IF st \in DOMAIN RouteHandlers THEN StateHandler(RouteHandlers[st], text)
    ELSE IF text = "/schedule" THEN "cmd_schedule"
    ELSE IF st \in DOMAIN ScheduleHandlers THEN StateHandler(ScheduleHandlers[st], text)
    ELSE IF text = "/stations" THEN "cmd_stations"
    ELSE IF st \in DOMAIN StationsHandlers THEN StateHandler(StationsHandlers[st], text)
    ELSE IF text = "/start" THEN "cmd_start"
    ELSE IF text = "/about" THEN "cmd_about"
    ELSE IF text = "/lang" THEN "cmd_language"
    ELSE IF text \in LANGUAGE_BUTTONS THEN "process_language_selection"
    ELSE IF st = None /\ text = MENU_ROUTE THEN "menu_route"
    ELSE IF st = None /\ text = MENU_SCHEDULE THEN "menu_schedule"
    ELSE IF st = None /\ text = MENU_STATIONS THEN "menu_stations"
    ELSE IF st = None THEN "catch_all_handler"
    ELSE "unhandled"

\* What the user sends in FSM state `st`.  The to-station prompt stores any
\* text verbatim: there the user sends the navigation buttons, the two
\* restarting commands, a station name, or one of two other texts.
Sendable(st) ==
    IF st = "RouteStates:waiting_for_to_station"
    THEN {BACK, CANCEL, "/route", "/stats", "/start", "hello", name_en["k1"], name_en["k3"]}
    ELSE Texts

\* Message `text` arrives and is dispatched to `handler`
Dispatched(handler, text) ==
    /\ text \in Sendable(state)
    /\ Handler(state, text) = handler
    /\ message' = text

\* What the message handlers leave alone
handlerFrame == <<schedules, pc, request, result, clock, pending_reminders, tasks, sent,
                  reminders, armed, storageVars, cacheVars>>

\* What only a route attempt changes
routeFrame == <<active_routes, reminder_kb>>

\* state.clear() followed by an answer with the main keyboard
ClearAndAnswer(text) ==
    /\ state' = None
    /\ data' = EmptyData
    /\ reply' = Answer(text, "main", <<>>)

\* A handler that moves to `next`, patches the data and shows a prompt
MoveAndPrompt(next, d, text, keyboard, items, extra) ==
    \E edit_ok \in BOOLEAN :
        LET p == Prompt(d, edit_ok, text, keyboard, items, extra)
        IN  /\ state' = next
            /\ data' = p.data
            /\ reply' = p.reply

\* An answer that changes neither state nor data
AnswerOnly(text, keyboard, items) ==
    /\ reply' = Answer(text, keyboard, items)
    /\ UNCHANGED <<state, data>>

(***************************************************************************)
(* Route conversation (handlers/route.py).                                 *)
(***************************************************************************)
cmd_route_body ==
    /\ state' = "RouteStates:waiting_for_from_line"
    /\ reply' = Answer("from_station_prompt", "lines", valid_lines)
    /\ data' = update_data(data, [active_message_id |-> MSG_ID, valid_lines |-> valid_lines])

cmd_route ==
    /\ Dispatched("cmd_route", "/route")
    /\ cmd_route_body
    /\ UNCHANGED <<handlerFrame, routeFrame>>

process_from_line ==
    /\ state = "RouteStates:waiting_for_from_line"
    /\ \E text \in Texts :
        /\ Dispatched("process_from_line", text)
        /\ LET selected_line == LINE_DISPLAY_TO_INTERNAL(text)
               stations_ == get_stations_by_line(selected_line)
           IN  IF selected_line = None
               THEN AnswerOnly("error_unknown_line", "lines", valid_lines)
               ELSE MoveAndPrompt("RouteStates:waiting_for_from_station",
                        update_data(data, [from_line |-> selected_line,
                                           valid_stations |-> stations_]),
                        "select_station_line", "stations", stations_, NoExtra)
        /\ UNCHANGED <<handlerFrame, routeFrame>>

back_from_line ==
    /\ state = "RouteStates:waiting_for_from_line"
    /\ Dispatched("back_from_line", BACK)
    /\ ClearAndAnswer("main_menu")
    /\ UNCHANGED <<handlerFrame, routeFrame>>

cancel_from_line ==
    /\ state = "RouteStates:waiting_for_from_line"
    /\ Dispatched("cancel_from_line", CANCEL)
    /\ ClearAndAnswer("error_cancelled")
    /\ UNCHANGED <<handlerFrame, routeFrame>>

process_from_station ==
    /\ state = "RouteStates:waiting_for_from_station"
    /\ \E text \in Texts :
        /\ Dispatched("process_from_station", text)
        /\ LET valid_stations == Get(data, "valid_stations", <<>>)
           IN  IF text \notin SeqToSet(valid_stations)
               THEN AnswerOnly("error_unknown_choice", "stations", valid_stations)
               ELSE MoveAndPrompt("RouteStates:waiting_for_to_line",
                        update_data(data, [from_station |-> text]),
                        "to_station_prompt", "lines", valid_lines, NoExtra)
        /\ UNCHANGED <<handlerFrame, routeFrame>>

back_from_station ==
    /\ state = "RouteStates:waiting_for_from_station"
    /\ Dispatched("back_from_station", BACK)
    /\ MoveAndPrompt("RouteStates:waiting_for_from_line", data, "from_station_prompt",
                     "stations", get_stations_by_line(Get(data, "from_line", None)), NoExtra)
    /\ UNCHANGED <<handlerFrame, routeFrame>>

cancel_from_station ==
    /\ state = "RouteStates:waiting_for_from_station"
    /\ Dispatched("cancel_from_station", CANCEL)
    /\ ClearAndAnswer("error_cancelled")
    /\ UNCHANGED <<handlerFrame, routeFrame>>

process_to_line ==
    /\ state = "RouteStates:waiting_for_to_line"
    /\ \E text \in Texts :
        /\ Dispatched("process_to_line", text)
        /\ LET selected_line == LINE_DISPLAY_TO_INTERNAL(text)
               stations_ == get_stations_by_line_except(selected_line,
                                                        Get(data, "from_station", ""))
           IN  IF text \notin SeqToSet(Get(data, "valid_lines", <<>>)) \/ selected_line = None
               THEN AnswerOnly("error_unknown_line", "lines", valid_lines)
               ELSE MoveAndPrompt("RouteStates:waiting_for_to_station",
                        update_data(data, [to_line |-> selected_line,
                                           valid_stations |-> stations_]),
                        "select_station_line", "stations", stations_, NoExtra)
        /\ UNCHANGED <<handlerFrame, routeFrame>>

back_to_line ==
    /\ state = "RouteStates:waiting_for_to_line"
    /\ Dispatched("back_to_line", BACK)
    /\ MoveAndPrompt("RouteStates:waiting_for_from_station", data, "select_station_line",
                     "stations", get_stations_by_line(Get(data, "from_line", "Kholodnohirsko-Zavodska")),
                     NoExtra)
    /\ UNCHANGED <<handlerFrame, routeFrame>>

cancel_to_line ==
    /\ state = "RouteStates:waiting_for_to_line"
    /\ Dispatched("cancel_to_line", CANCEL)
    /\ ClearAndAnswer("error_cancelled")
    /\ UNCHANGED <<handlerFrame, routeFrame>>

process_to_station ==
    /\ state = "RouteStates:waiting_for_to_station"
    /\ \E text \in Texts :
        /\ Dispatched("process_to_station", text)
        /\ MoveAndPrompt("RouteStates:waiting_for_time_choice",
                         update_data(data, [to_station |-> text]),
                         "time_prompt", "time_choice", TIME_CHOICES, NoExtra)
        /\ UNCHANGED <<handlerFrame, routeFrame>>

back_to_station ==
    /\ state = "RouteStates:waiting_for_to_station"
    /\ Dispatched("back_to_station", BACK)
    /\ MoveAndPrompt("RouteStates:waiting_for_to_line", data, "select_station_line", "stations",
                     get_stations_by_line_except(Get(data, "to_line", "Kholodnohirsko-Zavodska"),
                                                 Get(data, "from_station", "")), NoExtra)
    /\ UNCHANGED <<handlerFrame, routeFrame>>

cancel_to_station ==
    /\ state = "RouteStates:waiting_for_to_station"
    /\ Dispatched("cancel_to_station", CANCEL)
    /\ ClearAndAnswer("error_cancelled")
    /\ UNCHANGED <<handlerFrame, routeFrame>>

\* build_line_groups: the train segments grouped by line, in the order the
\* lines first appear
RECURSIVE build_line_groups(_, _)
build_line_groups(segments, groups) ==
    IF segments = <<>> THEN groups
    ELSE LET seg == Head(segments)
             line_id == stations[seg.from_station].line
             at == {i \in 1..Len(groups) : groups[i].line = line_id}
         IN  IF seg.is_transfer THEN build_line_groups(Tail(segments), groups)
             ELSE IF at = {}
             THEN build_line_groups(Tail(segments),
                                    Append(groups, [line |-> line_id, segments |-> <<seg>>]))
             ELSE build_line_groups(Tail(segments),
                    [i \in 1..Len(groups) |->
                        IF i \in at THEN [groups[i] EXCEPT !.segments = Append(@, seg)]
                        ELSE groups[i]])

\* generate_route_key: the digest of "from:to:departure_ts", kept as the
\* triple it is computed from
generate_route_key(route) ==
    <<route.segments[1].from_station, route.segments[Len(route.segments)].to_station,
      route.segments[1].departure_time>>

\* dict assignment d[key] = value
SetItem(d, key, value) == [k \in DOMAIN d \cup {key} |-> IF k = key THEN value ELSE d[k]]

\* No button of the keyboard has been clicked
NoClick == 0 - 1

\* build_reminder_keyboard: the callback data of the buttons, one button per
\* line group of two or more segments.  idx counts the groups from 0.
build_reminder_keyboard(route_key, line_groups, clicked_idx) ==
    {IF clicked_idx # NoClick /\ idx = clicked_idx
     THEN [kind |-> "remind_cancel", route_key |-> route_key, idx |-> idx, remind_ts |-> 0]
     ELSE [kind |-> "remind", route_key |-> route_key, idx |-> idx,
           remind_ts |-> LET segments == line_groups[idx + 1].segments
                         IN  segments[Len(segments)].departure_time] :
        idx \in {i \in 0..(Len(line_groups) - 1) : Len(line_groups[i + 1].segments) > 1}}

\* What _build_and_send_route does with a route found: stores it under its
\* key and sends it with the reminder keyboard
SendRoute(route, route_key, line_groups) ==
    [reply |-> Answer("route", "main", <<>>),
     routes |-> SetItem(active_routes, route_key,
                        [route |-> route, line_groups |-> line_groups]),
     kb |-> SetItem(reminder_kb, route_key,
                    build_reminder_keyboard(route_key, line_groups, NoClick))]

\* _build_and_send_route up to its final state.clear(): the last answer, the
\* new _active_routes and the keyboards in the chat (of the latest message
\* sent for each route key)
_build_and_send_route(from_station_name, to_station_name, departure_time, day_type_str) ==
    LET from_st == find_station_by_name(from_station_name)
        to_st == find_station_by_name(to_station_name)
        dt == IF day_type_str = "weekday" THEN "weekday" ELSE "weekend"
        Fail(text) == [reply |-> Answer(text, "main", <<>>), routes |-> active_routes,
                       kb |-> reminder_kb]
    IN  IF from_station_name = None \/ to_station_name = None THEN Fail("error_generic")
        ELSE IF from_st = None THEN Fail("error_station_not_found")
        ELSE IF to_st = None THEN Fail("error_station_not_found")
        ELSE CHOOSE r \in
            {IF route.kind = "MetroClosed" THEN Fail("error_metro_closed")
             ELSE IF route.kind = "None" THEN Fail("error_route_not_found")
             ELSE IF route.segments = <<>> THEN Fail("error_generic")
             ELSE SendRoute(route, generate_route_key(route),
                            build_line_groups(route.segments, <<>>)) :
                route \in {find_route(schedules, from_st, to_st, departure_time, dt)}} : TRUE

\* Variant of the route attempt that clears the session only when a route
\* was sent
RouteAttempt_KeepsOnError(departure_time, day_type_str) ==
    \E r \in {_build_and_send_route(Get(data, "from_station", None),
                                     Get(data, "to_station", None),
                                     departure_time, day_type_str)} :
        /\ state' = IF r.reply.text = "route" THEN None ELSE state
        /\ data' = IF r.reply.text = "route" THEN EmptyData ELSE data
        /\ reply' = r.reply
        /\ active_routes' = r.routes
        /\ reminder_kb' = r.kb

\* A route attempt: _build_and_send_route and the state.clear() that ends it
RouteAttempt(departure_time, day_type_str) ==
    \E r \in {_build_and_send_route(Get(data, "from_station", None),
                                     Get(data, "to_station", None),
                                     departure_time, day_type_str)} :
        /\ state' = None
        /\ data' = EmptyData
        /\ reply' = r.reply
        /\ active_routes' = r.routes
        /\ reminder_kb' = r.kb

\* "weekday" if now().weekday() < 5 else "weekend"
CurrentDayType == IF DateOf(clock) % 7 < 5 THEN "weekday" ELSE "weekend"

\* process_current_time
process_current_time == RouteAttempt(clock, CurrentDayType)

\* process_offset_time
process_offset_time(offset_minutes) == RouteAttempt(clock + offset_minutes * 60, CurrentDayType)

process_time_choice ==
    /\ state = "RouteStates:waiting_for_time_choice"
    /\ \E text \in Texts :
        /\ Dispatched("process_time_choice", text)
        /\ CASE text = "Current time" -> process_current_time
             [] text = "-20 min" -> process_offset_time(-20)
             [] text = "-10 min" -> process_offset_time(-10)
             [] text = "+10 min" -> process_offset_time(10)
             [] text = "+20 min" -> process_offset_time(20)
             [] text = "Custom time" ->
                    /\ MoveAndPrompt("RouteStates:waiting_for_day_type", data, "day_type_prompt",
                                     "day_type", valid_day_types,
                                     [valid_day_types |-> valid_day_types])
                    /\ UNCHANGED routeFrame
             [] OTHER ->
                    /\ AnswerOnly("error_unknown_choice", "time_choice", TIME_CHOICES)
                    /\ UNCHANGED routeFrame
        /\ UNCHANGED handlerFrame

back_from_time_choice ==
    /\ state = "RouteStates:waiting_for_time_choice"
    /\ Dispatched("back_from_time_choice", BACK)
    /\ MoveAndPrompt("RouteStates:waiting_for_to_station", data, "select_station_line", "stations",
                     get_stations_by_line_except(Get(data, "to_line", "Kholodnohirsko-Zavodska"),
                                                 Get(data, "from_station", "")), NoExtra)
    /\ UNCHANGED <<handlerFrame, routeFrame>>

cancel_from_time_choice ==
    /\ state = "RouteStates:waiting_for_time_choice"
    /\ Dispatched("cancel_from_time_choice", CANCEL)
    /\ ClearAndAnswer("error_cancelled")
    /\ UNCHANGED <<handlerFrame, routeFrame>>

process_day_type_route ==
    /\ state = "RouteStates:waiting_for_day_type"
    /\ \E text \in Texts :
        /\ Dispatched("process_day_type_route", text)
        /\ IF text \notin SeqToSet(Get(data, "valid_day_types", <<>>))
           THEN AnswerOnly("error_unknown_choice", "day_type", valid_day_types)
           ELSE \* the prompt is edited in place, or sent anew without storing its id
                \E edit_ok \in BOOLEAN :
                    /\ state' = "RouteStates:waiting_for_custom_time"
                    /\ data' = update_data(data, [day_type |-> DAY_TYPE_DISPLAY_TO_INTERNAL(text)])
                    /\ reply' = [Answer("custom_time_prompt", None, <<>>) EXCEPT
                                    !.via = IF Len(data["active_message_id"]) > 0 /\ edit_ok
                                            THEN "edit" ELSE "answer"]
        /\ UNCHANGED <<handlerFrame, routeFrame>>

back_from_day_type_route ==
    /\ state = "RouteStates:waiting_for_day_type"
    /\ Dispatched("back_from_day_type_route", BACK)
    /\ MoveAndPrompt("RouteStates:waiting_for_time_choice", data, "time_prompt", "time_choice",
                     TIME_CHOICES, NoExtra)
    /\ UNCHANGED <<handlerFrame, routeFrame>>

cancel_from_day_type_route ==
    /\ state = "RouteStates:waiting_for_day_type"
    /\ Dispatched("cancel_from_day_type_route", CANCEL)
    /\ ClearAndAnswer("error_cancelled")
    /\ UNCHANGED <<handlerFrame, routeFrame>>

process_custom_time ==
    /\ state = "RouteStates:waiting_for_custom_time"
    /\ \E text \in Texts :
        /\ Dispatched("process_custom_time", text)
        /\ IF text \notin DOMAIN CustomTimeInputs
           THEN \* re.match(r"^\d{1,2}:\d{2}$") fails
                /\ AnswerOnly("error_invalid_time_format", None, <<>>)
                /\ UNCHANGED routeFrame
           ELSE LET hour == CustomTimeInputs[text].hour
                    minute == CustomTimeInputs[text].minute
                IN  IF ~(0 <= hour /\ hour <= 23 /\ 0 <= minute /\ minute <= 59)
                    THEN /\ AnswerOnly("error_invalid_time", None, <<>>)
                         /\ UNCHANGED routeFrame
                    ELSE RouteAttempt(Combine(DateOf(clock), ClockTime(hour, minute)),
                                      Get(data, "day_type", "weekday"))
        /\ UNCHANGED handlerFrame

back_from_custom_time ==
    /\ state = "RouteStates:waiting_for_custom_time"
    /\ Dispatched("back_from_custom_time", BACK)
    /\ MoveAndPrompt("RouteStates:waiting_for_day_type", data, "day_type_prompt", "day_type",
                     valid_day_types, NoExtra)
    /\ UNCHANGED <<handlerFrame, routeFrame>>

(***************************************************************************)
(* Schedule conversation (handlers/schedule.py).                           *)
(***************************************************************************)
\* cmd_schedule without a station argument
cmd_schedule ==
    /\ Dispatched("cmd_schedule", "/schedule")
    /\ state' = "ScheduleStates:waiting_for_line"
    /\ reply' = Answer("select_line", "lines", valid_lines)
    /\ data' = update_data(data, [active_message_id |-> MSG_ID, valid_lines |-> valid_lines])
    /\ UNCHANGED <<handlerFrame, routeFrame>>

process_schedule_line ==
    /\ state = "ScheduleStates:waiting_for_line"
    /\ \E text \in Texts :
        /\ Dispatched("process_schedule_line", text)
        /\ LET selected_line == LINE_DISPLAY_TO_INTERNAL(text)
               stations_ == get_stations_by_line(selected_line)
           IN  IF selected_line = None
               THEN AnswerOnly("error_unknown_line", "lines", valid_lines)
               ELSE MoveAndPrompt("ScheduleStates:waiting_for_station",
                        update_data(data, [schedule_line |-> selected_line,
                                           valid_stations |-> stations_]),
                        "select_station_line", "stations", stations_, NoExtra)
        /\ UNCHANGED <<handlerFrame, routeFrame>>

back_from_schedule_line ==
    /\ state = "ScheduleStates:waiting_for_line"
    /\ Dispatched("back_from_schedule_line", BACK)
    /\ ClearAndAnswer("main_menu")
    /\ UNCHANGED <<handlerFrame, routeFrame>>

cancel_from_schedule_line ==
    /\ state = "ScheduleStates:waiting_for_line"
    /\ Dispatched("cancel_from_schedule_line", CANCEL)
    /\ ClearAndAnswer("schedule_cancelled")
    /\ UNCHANGED <<handlerFrame, routeFrame>>

process_schedule_station ==
    /\ state = "ScheduleStates:waiting_for_station"
    /\ \E text \in Texts :
        /\ Dispatched("process_schedule_station", text)
        /\ LET valid_stations == Get(data, "valid_stations", <<>>)
           IN  IF text \notin SeqToSet(valid_stations)
               THEN AnswerOnly("error_unknown_choice", "stations", valid_stations)
               ELSE MoveAndPrompt("ScheduleStates:waiting_for_day_type",
                        update_data(data, [schedule_station |-> text]),
                        "day_type_prompt", "day_type", valid_day_types,
                        [valid_day_types |-> valid_day_types])
        /\ UNCHANGED <<handlerFrame, routeFrame>>

back_from_schedule_station ==
    /\ state = "ScheduleStates:waiting_for_station"
    /\ Dispatched("back_from_schedule_station", BACK)
    /\ MoveAndPrompt("ScheduleStates:waiting_for_line", data, "select_station_line", "stations",
                     get_stations_by_line(Get(data, "schedule_line", "Kholodnohirsko-Zavodska")),
                     NoExtra)
    /\ UNCHANGED <<handlerFrame, routeFrame>>

cancel_from_schedule_station ==
    /\ state = "ScheduleStates:waiting_for_station"
    /\ Dispatched("cancel_from_schedule_station", CANCEL)
    /\ ClearAndAnswer("schedule_cancelled")
    /\ UNCHANGED <<handlerFrame, routeFrame>>

\* MetroRouter.get_station_schedule(station_id, None, day_type) finds rows
HasStationSchedule(station_id, day_type) ==
    \E k \in DOMAIN schedules : k[1] = station_id /\ k[3] = day_type /\ schedules[k] # {}

process_day_type ==
    /\ state = "ScheduleStates:waiting_for_day_type"
    /\ \E text \in Texts :
        /\ Dispatched("process_day_type", text)
        /\ LET selected_day == DAY_TYPE_DISPLAY_TO_INTERNAL(text)
               st == find_station_by_name(Get(data, "schedule_station", ""))
           IN  IF selected_day = None
               THEN AnswerOnly("error_unknown_choice", "day_type", valid_day_types)
               ELSE IF st = None THEN ClearAndAnswer("error_station_not_found")
               ELSE IF ~HasStationSchedule(st, selected_day)
               THEN ClearAndAnswer("schedule_not_found")
               ELSE ClearAndAnswer("schedule")
        /\ UNCHANGED <<handlerFrame, routeFrame>>

back_from_day_type ==
    /\ state = "ScheduleStates:waiting_for_day_type"
    /\ Dispatched("back_from_day_type", BACK)
    /\ MoveAndPrompt("ScheduleStates:waiting_for_station", data, "select_station_line", "stations",
                     get_stations_by_line(Get(data, "schedule_line", "Kholodnohirsko-Zavodska")),
                     NoExtra)
    /\ UNCHANGED <<handlerFrame, routeFrame>>

cancel_from_day_type ==
    /\ state = "ScheduleStates:waiting_for_day_type"
    /\ Dispatched("cancel_from_day_type", CANCEL)
    /\ ClearAndAnswer("schedule_cancelled")
    /\ UNCHANGED <<handlerFrame, routeFrame>>

(***************************************************************************)
(* Stations listing (handlers/stations.py).                                *)
(***************************************************************************)
cmd_stations_body ==
    /\ state' = "StationsStates:waiting_for_line"
    /\ reply' = Answer("select_line", "lines", valid_lines)
    /\ data' = update_data(data, [active_message_id |-> MSG_ID, valid_lines |-> valid_lines])

cmd_stations ==
    /\ Dispatched("cmd_stations", "/stations")
    /\ cmd_stations_body
    /\ UNCHANGED <<handlerFrame, routeFrame>>

process_line_selection ==
    /\ state = "StationsStates:waiting_for_line"
    /\ \E text \in Texts :
        /\ Dispatched("process_line_selection", text)
        /\ IF LINE_DISPLAY_TO_INTERNAL(text) = None
           THEN AnswerOnly("error_unknown_line", "lines", valid_lines)
           ELSE ClearAndAnswer("stations_list")
        /\ UNCHANGED <<handlerFrame, routeFrame>>

back_from_stations_line ==
    /\ state = "StationsStates:waiting_for_line"
    /\ Dispatched("back_from_stations_line", BACK)
    /\ ClearAndAnswer("main_menu")
    /\ UNCHANGED <<handlerFrame, routeFrame>>

cancel_stations ==
    /\ state = "StationsStates:waiting_for_line"
    /\ Dispatched("cancel_stations", CANCEL)
    /\ ClearAndAnswer("stations_cancelled")
    /\ UNCHANGED <<handlerFrame, routeFrame>>

(***************************************************************************)
(* Admin and common handlers (handlers/admin.py, handlers/common.py).      *)
(***************************************************************************)
\* cmd_stats: clears the session, then answers an admin with the statistics
\* and anyone else with the start message
cmd_stats ==
    /\ Dispatched("cmd_stats", "/stats")
    /\ \E is_admin \in BOOLEAN :
        ClearAndAnswer(IF is_admin THEN "stats" ELSE "start_message")
    /\ UNCHANGED <<handlerFrame, routeFrame>>

cmd_start ==
    /\ Dispatched("cmd_start", "/start")
    /\ AnswerOnly("start_message", "main", <<>>)
    /\ UNCHANGED <<handlerFrame, routeFrame>>

cmd_about ==
    /\ Dispatched("cmd_about", "/about")
    /\ AnswerOnly("about_message", "main", <<>>)
    /\ UNCHANGED <<handlerFrame, routeFrame>>

cmd_language ==
    /\ Dispatched("cmd_language", "/lang")
    /\ state' = "waiting_for_language"
    /\ reply' = Answer("select_language", "language", <<>>)
    /\ UNCHANGED <<data, handlerFrame, routeFrame>>

process_language_selection ==
    \E text \in Texts :
        /\ Dispatched("process_language_selection", text)
        /\ ClearAndAnswer("language_changed")
        /\ UNCHANGED <<handlerFrame, routeFrame>>

menu_route ==
    /\ state = None
    /\ Dispatched("menu_route", MENU_ROUTE)
    /\ cmd_route_body
    /\ UNCHANGED <<handlerFrame, routeFrame>>

menu_schedule ==
    /\ state = None
    /\ Dispatched("menu_schedule", MENU_SCHEDULE)
    /\ state' = "ScheduleStates:waiting_for_line"
    /\ reply' = Answer("select_line", "lines", valid_lines)
    /\ data' = update_data(data, [active_message_id |-> MSG_ID])
    /\ UNCHANGED <<handlerFrame, routeFrame>>

menu_stations ==
    /\ state = None
    /\ Dispatched("menu_stations", MENU_STATIONS)
    /\ cmd_stations_body
    /\ UNCHANGED <<handlerFrame, routeFrame>>

catch_all_handler ==
    /\ state = None
    /\ \E text \in Texts :
        /\ Dispatched("catch_all_handler", text)
        /\ AnswerOnly("start_message", "main", <<>>)
        /\ UNCHANGED <<handlerFrame, routeFrame>>

\* No registered handler matches: the dispatcher drops the update
Unhandled ==
    \E text \in Texts :
        /\ Dispatched("unhandled", text)
        /\ reply' = NoReply
        /\ UNCHANGED <<state, data, handlerFrame, routeFrame>>

(***************************************************************************)
(* Timetables the store may hold, and the routing requests.                *)
(***************************************************************************)
\* Times at which trains leave a terminal: weekday and weekend service
WeekdayStarts == {ClockTime(5, 30), ClockTime(5, 40), ClockTime(23, 20)}

WeekendStarts == {ClockTime(6, 0), ClockTime(22, 0)}

\* Rows of station `sid` towards terminal `dir`: each train passes the
\* station 2 minutes per hop after leaving the opposite terminal.
TrainRows(sid, dir, starts) ==
    LET l == StationsByLine[stations[sid].line]
        hops == IF dir = l[Len(l)] THEN stations[sid].order - 1
                ELSE Len(l) - stations[sid].order
    IN  {Entry((t + hops * 120) \div 3600, ((t + hops * 120) % 3600) \div 60) : t \in starts}

Terminals(sid) ==
    LET l == StationsByLine[stations[sid].line] IN {l[1], l[Len(l)]}

\* Keys <<station, direction, day type>> of a timetable; terminal_rows says
\* whether a terminal lists the trains that end there.
TimetableKeys(day_type, terminal_rows) ==
    {<<sid, dir, day_type>> : sid \in StationIds, dir \in StationIds} \cap
    {k \in StationIds \X StationIds \X DayTypes :
        /\ k[2] \in Terminals(k[1])
        /\ (terminal_rows \/ k[1] # k[2])}

\* Keys whose rows a timetable may lack
DropKeys == {<<"zz", "zz">>, <<"s2", "s3">>, <<"o2", "o3">>}

Timetable(terminal_rows, drop, weekend) ==
    LET keys == {k \in TimetableKeys("weekday", terminal_rows) : <<k[1], k[2]>> # drop}
                \cup (IF weekend THEN TimetableKeys("weekend", terminal_rows) ELSE {})
    IN  [k \in keys |-> TrainRows(k[1], k[2],
                                  IF k[3] = "weekday" THEN WeekdayStarts ELSE WeekendStarts)]

Timetables ==
    {Timetable(terminal_rows, drop, weekend) :
        terminal_rows \in BOOLEAN, drop \in DropKeys, weekend \in BOOLEAN}

\* Desired departures: Monday 04:30:00, 05:29:30, 06:00:00, 23:21:00,
\* 23:40:00 and Saturday 06:00:00
DepartureTimes ==
    {ClockTime(4, 30), ClockTime(5, 29) + 30, ClockTime(6, 0), ClockTime(23, 21),
     ClockTime(23, 40), Combine(5, ClockTime(6, 0))}

Requests ==
    [from_station_id : RequestIds, to_station_id : RequestIds,
     departure_time : DepartureTimes, day_type : DayTypes \cup {None}]

NoRequest == [from_station_id |-> None, to_station_id |-> None,
              departure_time |-> NoTime, day_type |-> None]

NoResult == [kind |-> "pending"]

\* The chat session, the clock and the reminders before the bot has run
BotInit ==
    /\ message = None
    /\ state = None
    /\ data = EmptyData
    /\ reply = NoReply
    /\ clock = 0
    /\ active_routes = <<>>
    /\ reminder_kb = <<>>
    /\ pending_reminders = <<>>
    /\ tasks = {}
    /\ sent = <<>>
    /\ reminders = {}
    /\ armed = <<>>
    /\ fsm_state = <<>>
    /\ calls = <<>>
    /\ _next_departure_cache = <<>>
    /\ _previous_departure_cache = <<>>

RouterInit ==
    /\ schedules \in Timetables
    /\ pc = "idle"
    /\ request = NoRequest
    /\ result = NoResult
    /\ BotInit

\* A caller invokes MetroRouter.find_route(from, to, departure_time, day_type)
FindRoute ==
    /\ pc = "idle"
    /\ \E r \in Requests :
        /\ request' = r
        /\ result' = find_route(schedules, r.from_station_id, r.to_station_id,
                                r.departure_time, r.day_type)
    /\ pc' = "done"
    /\ UNCHANGED <<storageVars, cacheVars, schedules, message, state, data, reply, clock, active_routes,
                   reminder_kb, pending_reminders, tasks, sent, reminders, armed>>

\* A caller invokes MetroRouter.find_route(from, to, arrival_by=..., day_type);
\* the request keeps the target time in its departure_time field
FindRouteArrivalBy ==
    /\ pc = "idle"
    /\ \E r \in Requests :
        /\ request' = r
        /\ result' = find_route_arrival_by(schedules, r.from_station_id, r.to_station_id,
                                            r.departure_time, r.day_type)
    /\ pc' = "arrived"
    /\ UNCHANGED <<storageVars, cacheVars, schedules, message, state, data, reply, clock, active_routes,
                   reminder_kb, pending_reminders, tasks, sent, reminders, armed>>

\* After a depart-at route from a to b has been returned, the caller asks
\* for the route from b to a at the arrival time of that route, with the
\* same day_type argument
FindReturnRoute ==
    /\ pc = "done"
    /\ result.kind = "route"
    /\ result.arrival_time # NoTime
    /\ result' = [kind |-> "round_trip", out |-> result,
                  back |-> find_route(schedules, request.to_station_id,
                                      request.from_station_id, result.arrival_time,
                                      request.day_type)]
    /\ pc' = "returned"
    /\ UNCHANGED <<request, storageVars, cacheVars, schedules, message, state, data, reply, clock,
                   active_routes, reminder_kb, pending_reminders, tasks, sent, reminders,
                   armed>>

RouterNext == FindRoute \/ FindRouteArrivalBy \/ FindReturnRoute

RouterSpec == RouterInit /\ [][RouterNext]_vars

(***************************************************************************)
(* The conversation: one chat, messages handled one at a time.             *)
(***************************************************************************)
\* The bot has started on a Monday at 06:00 with the full weekday timetable
ConversationInit ==
    /\ schedules = Timetable(TRUE, <<"zz", "zz">>, FALSE)
    /\ pc = "idle"
    /\ request = NoRequest
    /\ result = NoResult
    /\ message = None
    /\ state = None
    /\ data = EmptyData
    /\ reply = NoReply
    /\ clock = ClockTime(6, 0)
    /\ active_routes = <<>>
    /\ reminder_kb = <<>>
    /\ pending_reminders = <<>>
    /\ tasks = {}
    /\ sent = <<>>
    /\ reminders = {}
    /\ armed = <<>>
    /\ fsm_state = <<>>
    /\ calls = <<>>
    /\ _next_departure_cache = <<>>
    /\ _previous_departure_cache = <<>>

ConversationNext ==
    \/ cmd_stats
    \/ cmd_route
    \/ back_from_line
    \/ cancel_from_line
    \/ process_from_line
    \/ back_from_station
    \/ cancel_from_station
    \/ process_from_station
    \/ back_to_line
    \/ cancel_to_line
    \/ process_to_line
    \/ back_to_station
    \/ cancel_to_station
    \/ process_to_station
    \/ back_from_time_choice
    \/ cancel_from_time_choice
    \/ process_time_choice
    \/ back_from_day_type_route
    \/ cancel_from_day_type_route
    \/ process_day_type_route
    \/ back_from_custom_time
    \/ process_custom_time
    \/ cmd_schedule
    \/ back_from_schedule_line
    \/ cancel_from_schedule_line
    \/ process_schedule_line
    \/ back_from_schedule_station
    \/ cancel_from_schedule_station
    \/ process_schedule_station
    \/ back_from_day_type
    \/ cancel_from_day_type
    \/ process_day_type
    \/ cmd_stations
    \/ back_from_stations_line
    \/ cancel_stations
    \/ process_line_selection
    \/ cmd_start
    \/ cmd_about
    \/ cmd_language
    \/ process_language_selection
    \/ menu_route
    \/ menu_schedule
    \/ menu_stations
    \/ catch_all_handler
    \/ Unhandled

ConversationSpec == ConversationInit /\ [][ConversationNext]_vars

(***************************************************************************)
(* Reminder callbacks (handlers/route.py), the clock and process start     *)
(* (main.py).  A process_reminder coroutine suspended in asyncio.sleep is  *)
(* a record of `tasks`: its user, the time it wakes and the station its    *)
(* message names.  `id` tells coroutines apart: it is the position in      *)
(* `armed` of the callback that started the coroutine.                     *)
(***************************************************************************)
\* callback.from_user.id of the user of the chat
Users == {"u1"}

\* Arm callbacks accepted in one run
MaxArms == 2

\* Minutes the clock runs past StartClock
MaxMinutes == 13

\* Monday 05:30
StartClock == ClockTime(5, 30)

\* Callback data of the buttons now shown in the chat
Buttons == UNION {reminder_kb[k] : k \in DOMAIN reminder_kb}

\* callback.answer(text)
CallbackAnswer(text) == [via |-> "callback", text |-> text, keyboard |-> None, items |-> <<>>]

\* del d[key]
DelItem(d, key) == [k \in DOMAIN d \ {key} |-> d[k]]

\* Position in `armed` of the latest arm of `user_id` among the first n, or 0
LatestArm(user_id, n) ==
    IF \E i \in 1..n : armed[i].user_id = user_id
    THEN CHOOSE i \in 1..n :
            /\ armed[i].user_id = user_id
            /\ \A j \in (i + 1)..n : armed[j].user_id # user_id
    ELSE 0

reminderFrame == <<schedules, pc, request, result, message, state, data, clock,
                   active_routes, sent, reminders, storageVars, cacheVars>>

\* process_reminder with the route found and the line index in range: the
\* pending entry, the edited keyboard and the coroutine that sleeps until
\* the departure of the last segment of the line group
SetReminder(user_id, b, route, line_groups) ==
    LET segments == line_groups[b.idx + 1].segments
        target_segment == IF Len(segments) >= 2 THEN segments[Len(segments) - 1]
                          ELSE segments[1]
        remind_time == segments[Len(segments)].departure_time
        wait_seconds == remind_time - clock
    IN  /\ pending_reminders' = SetItem(pending_reminders, user_id,
                [from_st |-> route.segments[1].from_station,
                 to_st |-> route.segments[Len(route.segments)].to_station,
                 prev_st |-> target_segment.from_station,
                 arrival_ts |-> b.remind_ts])
        /\ reminder_kb' = SetItem(reminder_kb, b.route_key,
                build_reminder_keyboard(b.route_key, line_groups, b.idx))
        /\ reply' = CallbackAnswer("reminder_set")
        /\ tasks' = IF wait_seconds > 0
                    THEN tasks \cup {[id |-> Len(armed) + 1, user_id |-> user_id,
                                      wake |-> remind_time,
                                      last_station |-> segments[Len(segments)].to_station]}
                    ELSE tasks
        /\ armed' = Append(armed, [user_id |-> user_id, route_key |-> b.route_key,
                                   idx |-> b.idx, remind_at |-> remind_time,
                                   armed_at |-> clock, cancelled |-> FALSE,
                                   restarted |-> FALSE])

\* process_reminder, from the callback to asyncio.sleep.  The buttons carry
\* four fields and a numeric index, so the outdated-button and invalid-data
\* answers are not given.
process_reminder ==
    /\ Len(armed) < MaxArms
    /\ \E user_id \in Users, b \in Buttons :
        /\ b.kind = "remind"
        /\ IF b.route_key \notin DOMAIN active_routes
           THEN /\ reply' = CallbackAnswer("error_route_expired")
                /\ UNCHANGED <<reminder_kb, pending_reminders, tasks, armed>>
           ELSE IF b.idx < 0 \/ b.idx >= Len(active_routes[b.route_key].line_groups)
           THEN /\ reply' = CallbackAnswer("error_invalid_line")
                /\ UNCHANGED <<reminder_kb, pending_reminders, tasks, armed>>
           ELSE SetReminder(user_id, b, active_routes[b.route_key].route,
                            active_routes[b.route_key].line_groups)
    /\ UNCHANGED reminderFrame

\* process_reminder after asyncio.sleep returns: the reminder is sent if the
\* user has a pending entry
process_reminder_wake ==
    /\ \E t \in tasks :
        /\ clock >= t.wake
        /\ tasks' = tasks \ {t}
        /\ IF t.user_id \in DOMAIN pending_reminders
           THEN /\ pending_reminders' = DelItem(pending_reminders, t.user_id)
                /\ sent' = Append(sent, [task |-> t.id, user_id |-> t.user_id,
                                         station |-> t.last_station, at |-> clock,
                                         arms |-> Len(armed)])
           ELSE UNCHANGED <<pending_reminders, sent>>
    /\ UNCHANGED <<storageVars, cacheVars, schedules, pc, request, result, message, state, data, reply, clock,
                   active_routes, reminder_kb, reminders, armed>>

\* process_reminder after asyncio.sleep returns, when callback.message.answer
\* raises: the pending entry has been deleted, nothing is sent and the
\* exception leaves the handler
process_reminder_wake_raises ==
    /\ \E t \in tasks :
        /\ clock >= t.wake
        /\ t.user_id \in DOMAIN pending_reminders
        /\ tasks' = tasks \ {t}
        /\ pending_reminders' = DelItem(pending_reminders, t.user_id)
        /\ result' = [kind |-> "TelegramAPIError", task |-> t.id]
    /\ UNCHANGED <<storageVars, cacheVars, schedules, pc, request, message, state, data, reply, clock,
                   active_routes, reminder_kb, reminders, armed, sent>>

\* Variant of cancel_reminder without the look-up of the route: the pending
\* entry is deleted and the cancellation confirmed for any fingerprint
cancel_reminder_Unchecked ==
    /\ \E user_id \in Users, b \in Buttons :
        /\ b.kind = "remind_cancel"
        /\ pending_reminders' = IF user_id \in DOMAIN pending_reminders
                                THEN DelItem(pending_reminders, user_id)
                                ELSE pending_reminders
        /\ armed' = IF user_id \in DOMAIN pending_reminders
                    THEN [armed EXCEPT ![LatestArm(user_id, Len(armed))].cancelled = TRUE]
                    ELSE armed
        /\ reminder_kb' = IF b.route_key \in DOMAIN active_routes
                          THEN SetItem(reminder_kb, b.route_key,
                                  build_reminder_keyboard(b.route_key,
                                      active_routes[b.route_key].line_groups, NoClick))
                          ELSE reminder_kb
        /\ reply' = CallbackAnswer("reminder_cancelled")
    /\ UNCHANGED <<reminderFrame, tasks>>

\* cancel_reminder.  In `armed` the reminder cancelled is the one whose
\* pending entry is deleted: the user's latest.
cancel_reminder ==
    /\ \E user_id \in Users, b \in Buttons :
        /\ b.kind = "remind_cancel"
        /\ IF b.route_key \notin DOMAIN active_routes
           THEN /\ reply' = CallbackAnswer("error_route_expired")
                /\ UNCHANGED <<reminder_kb, pending_reminders, armed>>
           ELSE /\ pending_reminders' = IF user_id \in DOMAIN pending_reminders
                                        THEN DelItem(pending_reminders, user_id)
                                        ELSE pending_reminders
                /\ armed' = IF user_id \in DOMAIN pending_reminders
                            THEN [armed EXCEPT ![LatestArm(user_id, Len(armed))].cancelled = TRUE]
                            ELSE armed
                /\ reminder_kb' = SetItem(reminder_kb, b.route_key,
                        build_reminder_keyboard(b.route_key,
                            active_routes[b.route_key].line_groups, NoClick))
                /\ reply' = CallbackAnswer("reminder_cancelled")
    /\ UNCHANGED <<reminderFrame, tasks>>

\* A minute passes.  A sleep that has run out returns before more time
\* passes.
Tick ==
    /\ clock < StartClock + MaxMinutes * 60
    /\ \A t \in tasks : t.wake > clock
    /\ clock' = clock + 60
    /\ UNCHANGED <<storageVars, cacheVars, schedules, pc, request, result, message, state, data, reply,
                   active_routes, reminder_kb, pending_reminders, tasks, sent, reminders,
                   armed>>

\* UserDataDatabase.get_all_active_reminders: the rows with active = 1
get_all_active_reminders(rows) == {r \in rows : r.active}

\* Variant of deactivate_reminder keyed by the owner of the row: it
\* deactivates every reminder of that user
deactivate_reminder_OfUser(rows, reminder_id) ==
    {IF \E q \in rows : q.id = reminder_id /\ q.user_id = r.user_id
     THEN [r EXCEPT !.active = FALSE] ELSE r : r \in rows}

\* UserDataDatabase.deactivate_reminder: UPDATE ... SET active = 0 WHERE id = ?
deactivate_reminder(rows, reminder_id) ==
    {IF r.id = reminder_id THEN [r EXCEPT !.active = FALSE] ELSE r : r \in rows}

RECURSIVE DeactivateEach(_, _)
\* deactivate_reminder called for each id of `ids`
DeactivateEach(rows, ids) ==
    IF ids = {} THEN rows
    ELSE LET id == CHOOSE i \in ids : TRUE
         IN  DeactivateEach(deactivate_reminder(rows, id), ids \ {id})

\* The active row of `user_id` that the restore pass arms last: rows are
\* taken in remind_at order and each arm replaces the user's timer
LastActiveRow(rows, user_id) ==
    CHOOSE r \in rows :
        /\ r.user_id = user_id
        /\ \A q \in rows : q.user_id = user_id =>
              (q.remind_at < r.remind_at \/ (q.remind_at = r.remind_at /\ q.id <= r.id))

\* restore_pending_reminders at time `now_`: active rows with an unknown
\* station or a remind time not after `now_` are deactivated, the others
\* get an in-memory timer and a pending entry
restore_pending_reminders(rows, now_) ==
    LET expired == {r \in get_all_active_reminders(rows) :
                        r.station_id \notin StationIds \/ r.remind_at <= now_}
        live == get_all_active_reminders(rows) \ expired
        users == {r.user_id : r \in live}
    IN  [rows |-> DeactivateEach(rows, {r.id : r \in expired}),
         pending |-> [u \in users |->
                        [remind_at |-> LastActiveRow(live, u).remind_at,
                         reminder_id |-> LastActiveRow(live, u).id]],
         tasks |-> {[id |-> LastActiveRow(live, u).id, user_id |-> u,
                     wake |-> LastActiveRow(live, u).remind_at,
                     last_station |-> LastActiveRow(live, u).station_id] : u \in users}]

\* The process is restarted: main() runs in a new process.  The module-level
\* dictionaries start empty and no coroutine of the old process is left;
\* the FSM storage and the messages in the chat stay.  No session is twelve
\* hours old, so cleanup_stale_states removes none.
main ==
    /\ \E r \in {restore_pending_reminders(reminders, clock)} :
        /\ reminders' = r.rows
        /\ pending_reminders' = r.pending
        /\ tasks' = r.tasks
    /\ active_routes' = <<>>
    /\ armed' = [i \in DOMAIN armed |-> [armed[i] EXCEPT !.restarted = TRUE]]
    /\ UNCHANGED <<storageVars, cacheVars, schedules, pc, request, result, message, state, data, reply, clock,
                   reminder_kb, sent>>

\* Monday 05:30: a user has chosen the route from Istorychnyi to Peremoha
\* and is asked for the departure time
ReminderInit ==
    /\ schedules = Timetable(TRUE, <<"zz", "zz">>, FALSE)
    /\ pc = "idle"
    /\ request = NoRequest
    /\ result = NoResult
    /\ message = name_en["o3"]
    /\ state = "RouteStates:waiting_for_time_choice"
    /\ data = update_data(EmptyData,
                [active_message_id |-> MSG_ID, valid_lines |-> valid_lines,
                 from_line |-> "S", from_station |-> name_en["s1"], to_line |-> "O",
                 valid_stations |-> get_stations_by_line_except("O", name_en["s1"]),
                 to_station |-> name_en["o3"]])
    /\ reply = [Answer("time_prompt", "time_choice", TIME_CHOICES) EXCEPT !.via = "edit"]
    /\ clock = StartClock
    /\ active_routes = <<>>
    /\ reminder_kb = <<>>
    /\ pending_reminders = <<>>
    /\ tasks = {}
    /\ sent = <<>>
    /\ reminders = {}
    /\ armed = <<>>
    /\ fsm_state = <<>>
    /\ calls = <<>>
    /\ _next_departure_cache = <<>>
    /\ _previous_departure_cache = <<>>

ReminderNext ==
    \/ process_time_choice
    \/ process_reminder
    \/ process_reminder_wake
    \/ process_reminder_wake_raises
    \/ cancel_reminder
    \/ Tick
    \/ main

ReminderSpec == ReminderInit /\ [][ReminderNext]_vars

(***************************************************************************)
(* Restart with reminder records in the table.                             *)
(***************************************************************************)
\* Rows the reminders table holds at a restart
MaxRows == 3

\* station_id of a reminder row: a station of the network, or one that the
\* network no longer has
RowStations == {"o2", "gone"}

\* remind_at of a reminder row: before, at and after the restart
RowTimes == {StartClock - 60, StartClock, StartClock + 60}

\* The rows one id may stand for
RowsOfId(id) ==
    {[id |-> id, user_id |-> u, station_id |-> st, remind_at |-> t, active |-> a] :
        u \in Users, st \in RowStations, t \in RowTimes, a \in BOOLEAN}

RECURSIVE Tables(_)
\* The tables with at most one row for each id up to n
Tables(n) ==
    IF n = 0 THEN {{}}
    ELSE {tb \cup extra : tb \in Tables(n - 1),
                          extra \in {{}} \cup {{r} : r \in RowsOfId(n)}}

\* The process has stopped at StartClock with any such table on disk
RestoreInit ==
    /\ schedules = Timetable(TRUE, <<"zz", "zz">>, FALSE)
    /\ pc = "idle"
    /\ request = NoRequest
    /\ result = NoResult
    /\ message = None
    /\ state = None
    /\ data = EmptyData
    /\ reply = NoReply
    /\ clock = StartClock
    /\ active_routes = <<>>
    /\ reminder_kb = <<>>
    /\ pending_reminders = <<>>
    /\ tasks = {}
    /\ sent = <<>>
    /\ reminders \in Tables(MaxRows)
    /\ armed = <<>>
    /\ fsm_state = <<>>
    /\ calls = <<>>
    /\ _next_departure_cache = <<>>
    /\ _previous_departure_cache = <<>>

RestoreNext == main

RestoreSpec == RestoreInit /\ [][RestoreNext]_vars

(***************************************************************************)
(* Housekeeping (main.py): the task that wakes every hour and deactivates  *)
(* the reminders whose time has passed.                                    *)
(***************************************************************************)
\* asyncio.sleep(3600)
CLEANUP_INTERVAL == 3600

\* The clock advances by half an hour at a time
HousekeepingTick == 30 * 60

\* Half hours the clock advances after the start
MaxHousekeepingTicks == 6

Horizon == StartClock + MaxHousekeepingTicks * HousekeepingTick

\* cleanup_expired_reminders, every active reminder deactivated
cleanup_expired_reminders_All(rows, now_) ==
    [rows |-> DeactivateEach(rows, {r.id : r \in get_all_active_reminders(rows)}),
     cleaned |-> Cardinality(get_all_active_reminders(rows))]

\* cleanup_expired_reminders at time `now_`: the active reminders whose
\* remind_at is in the past are deactivated; returns the table and their
\* number
cleanup_expired_reminders(rows, now_) ==
    [rows |-> DeactivateEach(rows, {r.id : r \in {q \in get_all_active_reminders(rows) :
                                                        q.remind_at < now_}}),
     cleaned |-> Cardinality({q \in get_all_active_reminders(rows) : q.remind_at < now_})]

\* remind_at of a row: before the start, in the first hour and in the second
HousekeepingTimes ==
    {StartClock - 60, StartClock + 60, StartClock + CLEANUP_INTERVAL + 60}

\* The tables of up to two rows on disk when the process starts
HousekeepingTables ==
    {tb \in SUBSET {[id |-> id, user_id |-> "u1", station_id |-> "o2", remind_at |-> t,
                     active |-> a] : id \in 1..2, t \in HousekeepingTimes, a \in BOOLEAN} :
        \A r, q \in tb : r.id = q.id => r = q}

housekeepingFrame == <<schedules, message, state, data, reply, active_routes, reminder_kb,
                       pending_reminders, tasks, sent, armed, storageVars, cacheVars>>

\* main() has restored the reminders and created the housekeeping task,
\* which sleeps for its first hour
HousekeepingInit ==
    /\ schedules = Timetable(TRUE, <<"zz", "zz">>, FALSE)
    /\ pc = "sleeping"
    /\ request = [op |-> "sleep", wake |-> StartClock + CLEANUP_INTERVAL]
    /\ result = NoResult
    /\ message = None
    /\ state = None
    /\ data = EmptyData
    /\ reply = NoReply
    /\ clock = StartClock
    /\ active_routes = <<>>
    /\ reminder_kb = <<>>
    /\ \E tb \in HousekeepingTables :
        \E r \in {restore_pending_reminders(tb, StartClock)} :
            /\ reminders = r.rows
            /\ pending_reminders = r.pending
            /\ tasks = r.tasks
    /\ sent = <<>>
    /\ armed = <<>>
    /\ fsm_state = <<>>
    /\ calls = <<>>
    /\ _next_departure_cache = <<>>
    /\ _previous_departure_cache = <<>>

\* Time passes
HousekeepingClock ==
    /\ clock < Horizon
    /\ clock' = clock + HousekeepingTick
    /\ UNCHANGED <<pc, request, result, reminders, housekeepingFrame>>

\* One turn of the loop of _cleanup_expired_reminders_task: the sleep has
\* ended, the pass runs and the task sleeps again
_cleanup_expired_reminders_task ==
    /\ pc = "sleeping"
    /\ clock >= request.wake
    /\ \E r \in {cleanup_expired_reminders(reminders, clock)} :
        /\ reminders' = r.rows
        /\ result' = [kind |-> "cleaned", cleaned |-> r.cleaned]
    /\ request' = [op |-> "sleep", wake |-> clock + CLEANUP_INTERVAL]
    /\ UNCHANGED <<pc, clock, housekeepingFrame>>

\* One turn of the loop in which the pass raises: the exception is logged
\* and the task sleeps again.  A failing pass is taken while the horizon
\* leaves room for the next one.
CleanupRaises ==
    /\ pc = "sleeping"
    /\ clock >= request.wake
    /\ clock + CLEANUP_INTERVAL <= Horizon
    /\ result' = [kind |-> "logged", cleaned |-> 0]
    /\ request' = [op |-> "sleep", wake |-> clock + CLEANUP_INTERVAL]
    /\ UNCHANGED <<pc, clock, reminders, housekeepingFrame>>

HousekeepingNext ==
    \/ HousekeepingClock
    \/ _cleanup_expired_reminders_task
    \/ CleanupRaises

\* The clock runs and the event loop resumes the task once its sleep has
\* ended
HousekeepingSpec ==
    /\ HousekeepingInit
    /\ [][HousekeepingNext]_vars
    /\ WF_vars(HousekeepingClock)
    /\ WF_vars(_cleanup_expired_reminders_task)

(***************************************************************************)
(* FSM storage (storage.py): the table fsm_state, one row for each session *)
(* key, written by set_state and set_data and purged by                    *)
(* cleanup_stale_states.                                                   *)
(***************************************************************************)
\* StorageKey (chat_id, user_id, destiny) of two sessions
StorageKeys == {"chat1", "chat2"}

\* A dict with no key
EmptyDict == [k \in {} |-> 0]

\* json.dumps(data or {}): the text stored in column `data`
json_dumps(d) == [json |-> d]

\* json.loads(text) or {}
json_loads(text) == text.json

\* datetime.isoformat(): the fields of the text, widest first
isoformat(t) == <<t \div SecPerDay, HourOf(t), MinuteOf(t), t % 60>>

RECURSIVE TextLess(_, _)
\* a < b as SQLite compares two texts: by the first field that differs
TextLess(a, b) ==
    IF a = <<>> \/ b = <<>> THEN FALSE
    ELSE IF Head(a) # Head(b) THEN Head(a) < Head(b)
    ELSE TextLess(Tail(a), Tail(b))

\* What a handler passes as a state: None, a string, or a State object
StateArgs ==
    {[kind |-> "None"],
     [kind |-> "str", value |-> "waiting_for_language"],
     [kind |-> "State", state |-> "RouteStates:waiting_for_from_line"]}

\* SqliteStorage._state_to_str
_state_to_str(state_arg) ==
    IF state_arg.kind = "None" THEN None
    ELSE IF state_arg.kind = "State" THEN state_arg.state
    ELSE state_arg.value

\* Variant of set_state whose upsert also writes the data column
set_state_ResetsData(tbl, key, state_arg, now_) ==
    (key :> [state |-> _state_to_str(state_arg), data |-> json_dumps(EmptyDict),
             updated_at |-> isoformat(now_)]) @@ tbl

\* SqliteStorage.set_state: insert the row with data '{}', or on conflict
\* update state and updated_at
set_state(tbl, key, state_arg, now_) ==
    IF key \in DOMAIN tbl
    THEN [tbl EXCEPT ![key].state = _state_to_str(state_arg),
                     ![key].updated_at = isoformat(now_)]
    ELSE (key :> [state |-> _state_to_str(state_arg), data |-> json_dumps(EmptyDict),
                  updated_at |-> isoformat(now_)]) @@ tbl

\* SqliteStorage.get_state
get_state(tbl, key) == IF key \in DOMAIN tbl THEN tbl[key].state ELSE None

\* SqliteStorage.set_data: insert the row with state NULL, or on conflict
\* update data and updated_at
set_data(tbl, key, d, now_) ==
    IF key \in DOMAIN tbl
    THEN [tbl EXCEPT ![key].data = json_dumps(d), ![key].updated_at = isoformat(now_)]
    ELSE (key :> [state |-> None, data |-> json_dumps(d),
                  updated_at |-> isoformat(now_)]) @@ tbl

\* SqliteStorage.get_data
get_data(tbl, key) == IF key \in DOMAIN tbl THEN json_loads(tbl[key].data) ELSE EmptyDict

\* Variant of dict.update that keeps only the keys of the patch
dict_update_Replace(stored, patch) == patch

\* stored.update(patch)
dict_update(stored, patch) ==
    [k \in DOMAIN stored \cup DOMAIN patch |->
        IF k \in DOMAIN patch THEN patch[k] ELSE stored[k]]

\* SqliteStorage.update_data: get_data, dict.update, set_data.  get_data and
\* set_data have no await inside, so the coroutine is never suspended between
\* its read and its write.  Returns the table and the merged dict.
SqliteStorage_update_data(tbl, key, patch, now_) ==
    [rows |-> set_data(tbl, key, dict_update(get_data(tbl, key), patch), now_),
     stored |-> dict_update(get_data(tbl, key), patch)]

\* SqliteStorage.clear: delete the row
clear(tbl, key) == [k \in DOMAIN tbl \ {key} |-> tbl[k]]

\* Variant of cleanup_stale_states that also deletes the rows updated at the
\* cutoff
cleanup_stale_states_AtCutoff(tbl, max_age, now_) ==
    [rows |-> [k \in {q \in DOMAIN tbl : TextLess(isoformat(now_ - max_age), tbl[q].updated_at)}
                 |-> tbl[k]],
     rowcount |-> Cardinality({q \in DOMAIN tbl :
                                 ~TextLess(isoformat(now_ - max_age), tbl[q].updated_at)})]

\* SqliteStorage.cleanup_stale_states: DELETE ... WHERE updated_at < cutoff,
\* returning cursor.rowcount
cleanup_stale_states(tbl, max_age, now_) ==
    [rows |-> [k \in {q \in DOMAIN tbl : ~TextLess(tbl[q].updated_at, isoformat(now_ - max_age))}
                 |-> tbl[k]],
     rowcount |-> Cardinality({q \in DOMAIN tbl :
                                 TextLess(tbl[q].updated_at, isoformat(now_ - max_age))})]

\* update_data calls issued in one run
MaxCalls == 2

\* Steps of six hours the storage clock takes
MaxStorageTicks == 2

\* Tuesday 00:00
StorageStart == Combine(1, 0)

\* The session whose handlers call update_data
UpdateKeys == {"chat1"}

\* Dicts passed to set_data
DataArgs == {EmptyDict, [a |-> 1]}

\* Patches passed to update_data
Patches == {[a |-> 2], [b |-> 1]}

\* max_age passed to cleanup_stale_states: six and twelve hours
MaxAges == {6 * 3600, 12 * 3600}

\* The calls still in the history once `key` is written by something other
\* than update_data
Superseded(key) == SelectSeq(calls, LAMBDA c : ~(c.key = key /\ c.done))

storageFrame == <<schedules, message, state, data, reply, active_routes, reminder_kb,
                  pending_reminders, tasks, sent, reminders, armed, cacheVars>>

StorageInit ==
    /\ schedules = Timetable(TRUE, <<"zz", "zz">>, FALSE)
    /\ pc = "idle"
    /\ request = NoRequest
    /\ result = NoResult
    /\ message = None
    /\ state = None
    /\ data = EmptyData
    /\ reply = NoReply
    /\ clock = StorageStart
    /\ active_routes = <<>>
    /\ reminder_kb = <<>>
    /\ pending_reminders = <<>>
    /\ tasks = {}
    /\ sent = <<>>
    /\ reminders = {}
    /\ armed = <<>>
    /\ fsm_state = <<>>
    /\ calls = <<>>
    /\ _next_departure_cache = <<>>
    /\ _previous_departure_cache = <<>>

\* A handler calls storage.set_state(key, state)
SetState ==
    /\ \E key \in StorageKeys, state_arg \in StateArgs :
        /\ fsm_state' = set_state(fsm_state, key, state_arg, clock)
        /\ request' = [op |-> "set_state", key |-> key, state |-> _state_to_str(state_arg)]
    /\ pc' = "set_state"
    /\ result' = NoResult
    /\ UNCHANGED <<storageFrame, clock, calls>>

\* A handler calls storage.set_data(key, data)
SetData ==
    /\ \E key \in StorageKeys, d \in DataArgs :
        /\ fsm_state' = set_data(fsm_state, key, d, clock)
        /\ request' = [op |-> "set_data", key |-> key, data |-> d]
        /\ calls' = Superseded(key)
    /\ pc' = "set_data"
    /\ result' = NoResult
    /\ UNCHANGED <<storageFrame, clock>>

\* A handler's task reaches `await storage.update_data(key, patch)`
IssueUpdateData ==
    /\ Len(calls) < MaxCalls
    /\ \E key \in UpdateKeys, patch \in Patches :
        /\ calls' = Append(calls, [key |-> key, patch |-> patch, done |-> FALSE])
        /\ request' = [op |-> "issue", key |-> key, patch |-> patch]
    /\ pc' = "issue"
    /\ result' = NoResult
    /\ UNCHANGED <<storageFrame, clock, fsm_state>>

\* The event loop runs an issued update_data call, in any order of issue
UpdateData ==
    /\ \E i \in 1..Len(calls) :
        /\ ~calls[i].done
        /\ \E r \in {SqliteStorage_update_data(fsm_state, calls[i].key, calls[i].patch, clock)} :
            /\ fsm_state' = r.rows
            /\ result' = [kind |-> "stored", stored |-> r.stored]
        /\ request' = [op |-> "update_data", key |-> calls[i].key, patch |-> calls[i].patch]
        /\ calls' = [calls EXCEPT ![i].done = TRUE]
    /\ pc' = "update_data"
    /\ UNCHANGED <<storageFrame, clock>>

\* A caller runs storage.clear(key)
Clear ==
    /\ \E key \in StorageKeys :
        /\ fsm_state' = clear(fsm_state, key)
        /\ request' = [op |-> "clear", key |-> key]
        /\ calls' = Superseded(key)
    /\ pc' = "clear"
    /\ result' = NoResult
    /\ UNCHANGED <<storageFrame, clock>>

\* main() calls storage.cleanup_stale_states(max_age) at startup
CleanupStaleStates ==
    /\ \E max_age \in MaxAges :
        \E r \in {cleanup_stale_states(fsm_state, max_age, clock)} :
            /\ fsm_state' = r.rows
            /\ result' = [kind |-> "removed", removed |-> r.rowcount]
            /\ request' = [op |-> "cleanup_stale_states", max_age |-> max_age]
            /\ calls' = SelectSeq(calls, LAMBDA c : ~(c.done /\ c.key \notin DOMAIN r.rows))
    /\ pc' = "cleanup_stale_states"
    /\ UNCHANGED <<storageFrame, clock>>

\* Six hours pass
StorageTick ==
    /\ clock < StorageStart + MaxStorageTicks * 6 * 3600
    /\ clock' = clock + 6 * 3600
    /\ pc' = "tick"
    /\ request' = NoRequest
    /\ result' = NoResult
    /\ UNCHANGED <<storageFrame, fsm_state, calls>>

StorageNext ==
    \/ SetState
    \/ SetData
    \/ IssueUpdateData
    \/ UpdateData
    \/ Clear
    \/ CleanupStaleStates
    \/ StorageTick

StorageSpec == StorageInit /\ [][StorageNext]_vars

(***************************************************************************)
(* Timetable store (database.py) on its own: the schedules table is        *)
(* written by save_schedule and save_schedules and read by the queries.    *)
(* A schedule's entries are distinct, so the rows of a key are a set.      *)
(***************************************************************************)
\* StationSchedule(station_id, direction_station_id, day_type, entries)
StationSchedule(station_id, direction_station_id, day_type, entries) ==
    [station_id |-> station_id, direction_station_id |-> direction_station_id,
     day_type |-> day_type, entries |-> entries]

\* MetroDatabase._schedule_key
_schedule_key(schedule) ==
    <<schedule.station_id, schedule.direction_station_id, schedule.day_type>>

\* MetroDatabase._delete_schedule: DELETE FROM schedules WHERE the key matches
_delete_schedule(sched, schedule) ==
    [k \in DOMAIN sched \ {_schedule_key(schedule)} |-> sched[k]]

\* MetroDatabase._insert_schedule_entries: one row for each entry
_insert_schedule_entries(sched, schedule) ==
    IF schedule.entries = <<>> THEN sched
    ELSE [k \in DOMAIN sched \cup {_schedule_key(schedule)} |->
            IF k = _schedule_key(schedule)
            THEN Rows(sched, k[1], k[2], k[3])
                    \cup {schedule.entries[i] : i \in DOMAIN schedule.entries}
            ELSE sched[k]]

\* Variant of conn_close for a connection in autocommit mode: every
\* statement is kept
conn_close_Autocommit(committed, working, did_commit) == working

\* The with-block of _get_connection ends: conn.close() keeps the rows of
\* the open transaction only if conn.commit() has run
conn_close(committed, working, did_commit) ==
    IF did_commit THEN working ELSE committed

\* MetroDatabase.save_schedule
save_schedule(sched, schedule) ==
    conn_close(sched,
               _insert_schedule_entries(_delete_schedule(sched, schedule), schedule),
               TRUE)

RECURSIVE SaveLoop(_, _, _)
\* The loop of save_schedules over list[i..]: the rows and the count
SaveLoop(acc, list, i) ==
    IF i > Len(list) THEN acc
    ELSE SaveLoop([rows |-> _insert_schedule_entries(_delete_schedule(acc.rows, list[i]),
                                                     list[i]),
                   count |-> acc.count + Len(list[i].entries)],
                  list, i + 1)

\* MetroDatabase.save_schedules: the rows and the count returned
save_schedules(sched, list) ==
    IF list = <<>> THEN [rows |-> sched, count |-> 0]
    ELSE LET done == SaveLoop([rows |-> sched, count |-> 0], list, 1)
         IN  [rows |-> conn_close(sched, done.rows, TRUE), count |-> done.count]

\* save_schedules when the statement for list[n + 1] raises: the loop has
\* written the first n schedules and the with-block ends before the commit
save_schedules_raises(sched, list, n) ==
    conn_close(sched, SaveLoop([rows |-> sched, count |-> 0], Take(list, n), 1).rows,
               FALSE)

\* Keys of the schedules saved in the store runs
StoreKeys == {<<"k1", "k3", "weekday">>, <<"k2", "k3", "weekday">>, <<"k1", "k3", "weekend">>}

\* Entry lists of a scraped schedule, in the order of the page
EntryLists ==
    {<<>>, <<Entry(6, 10), Entry(5, 40)>>, <<Entry(0, 10), Entry(23, 59)>>,
     <<Entry(5, 40), Entry(6, 10), Entry(23, 20)>>}

ScheduleArgs ==
    {StationSchedule(k[1], k[2], k[3], es) : k \in StoreKeys, es \in EntryLists}

\* First schedules of the two-schedule lists
ListHeads ==
    {StationSchedule("k1", "k3", "weekday", <<Entry(6, 10), Entry(5, 40)>>),
     StationSchedule("k1", "k3", "weekday", <<>>),
     StationSchedule("k2", "k3", "weekday", <<Entry(0, 10), Entry(23, 59)>>)}

\* Lists given to save_schedules: none, one or two schedules
ScheduleLists ==
    {<<>>} \cup {<<a>> : a \in ScheduleArgs}
           \cup {<<a, b>> : a \in ListHeads, b \in ScheduleArgs}

\* Times of day the queries are made for: every entry time and the minute
\* after it on the wall clock
QueryTimes ==
    {0} \cup UNION {UNION {{EntryTime(es[i]), (EntryTime(es[i]) + 60) % SecPerDay} :
                                i \in DOMAIN es} : es \in EntryLists}

storeFrame == <<message, state, data, reply, clock, active_routes, reminder_kb,
                pending_reminders, tasks, sent, reminders, armed, storageVars, cacheVars>>

\* The database file has just been created by _init_db: no row
StoreInit ==
    /\ schedules = <<>>
    /\ pc = "idle"
    /\ request = NoRequest
    /\ result = NoResult
    /\ message = None
    /\ state = None
    /\ data = EmptyData
    /\ reply = NoReply
    /\ clock = StartClock
    /\ active_routes = <<>>
    /\ reminder_kb = <<>>
    /\ pending_reminders = <<>>
    /\ tasks = {}
    /\ sent = <<>>
    /\ reminders = {}
    /\ armed = <<>>
    /\ fsm_state = <<>>
    /\ calls = <<>>
    /\ _next_departure_cache = <<>>
    /\ _previous_departure_cache = <<>>

\* db.save_schedule(schedule)
SaveSchedule ==
    /\ \E schedule \in ScheduleArgs :
        /\ schedules' = save_schedule(schedules, schedule)
        /\ request' = [op |-> "save_schedule", list |-> <<schedule>>]
    /\ pc' = "save_schedule"
    /\ result' = NoResult
    /\ UNCHANGED storeFrame

\* db.save_schedules(list) returns the count
SaveSchedules ==
    /\ \E list \in ScheduleLists :
        \E r \in {save_schedules(schedules, list)} :
            /\ schedules' = r.rows
            /\ request' = [op |-> "save_schedules", list |-> list]
            /\ result' = [kind |-> "count", count |-> r.count]
    /\ pc' = "save_schedules"
    /\ UNCHANGED storeFrame

\* db.save_schedules(list) raises at the schedule after the first n
SaveSchedulesRaises ==
    /\ \E list \in ScheduleLists \ {<<>>} :
        \E n \in 0..(Len(list) - 1) :
            /\ schedules' = save_schedules_raises(schedules, list, n)
            /\ request' = [op |-> "save_schedules", list |-> list]
            /\ result' = [kind |-> "raised", at |-> n + 1]
    /\ pc' = "save_schedules"
    /\ UNCHANGED storeFrame

\* db.is_metro_open(day_type, check_time) returns (is_open, last, first)
IsMetroOpen ==
    /\ \E day_type \in DayTypes, check_time \in QueryTimes :
        /\ request' = [op |-> "is_metro_open", day_type |-> day_type,
                       check_time |-> check_time]
        /\ result' = [kind |-> "open",
                      is_open |-> is_metro_open(schedules, day_type, check_time),
                      last_departure |-> get_last_departure_time(schedules, day_type),
                      first_departure |-> get_first_departure_time(schedules, day_type)]
    /\ pc' = "is_metro_open"
    /\ UNCHANGED <<schedules, storeFrame>>

\* LIMIT values of the queries; the last exceeds every entry list
QueryLimits == {1, 2, 4}

\* db.get_next_departures(station_id, direction_station_id, day_type,
\* after_time, limit)
GetNextDepartures ==
    /\ \E k \in StoreKeys, after_time \in QueryTimes, limit \in QueryLimits :
        /\ request' = [op |-> "get_next_departures", station_id |-> k[1],
                       direction_station_id |-> k[2], day_type |-> k[3],
                       time |-> after_time, limit |-> limit]
        /\ result' = [kind |-> "entries",
                      entries |-> get_next_departures(schedules, k[1], k[2], k[3],
                                                      after_time, limit)]
    /\ pc' = "get_next_departures"
    /\ UNCHANGED <<schedules, storeFrame>>

\* db.get_previous_departures(station_id, direction_station_id, day_type,
\* before_time, limit)
GetPreviousDepartures ==
    /\ \E k \in StoreKeys, before_time \in QueryTimes, limit \in QueryLimits :
        /\ request' = [op |-> "get_previous_departures", station_id |-> k[1],
                       direction_station_id |-> k[2], day_type |-> k[3],
                       time |-> before_time, limit |-> limit]
        /\ result' = [kind |-> "entries",
                      entries |-> get_previous_departures(schedules, k[1], k[2], k[3],
                                                          before_time, limit)]
    /\ pc' = "get_previous_departures"
    /\ UNCHANGED <<schedules, storeFrame>>

\* Arrive-by requests of the store runs: along line K toward k3, on a Monday
\* and on a Saturday, at the query times and three minutes after a departure
ArrivalRequests ==
    {[from_station_id |-> "k1", to_station_id |-> b, departure_time |-> Combine(d, t),
      day_type |-> None] : b \in {"k2", "k3"}, d \in {0, 5},
                           t \in QueryTimes \cup {ClockTime(5, 43)}}

\* MetroRouter(db).find_route(from, to, arrival_by=...) on a router made for
\* the call, whose lookup caches are empty; the request keeps the target
\* time in its departure_time field
RouteArrivalBy ==
    /\ \E r \in ArrivalRequests :
        /\ request' = r
        /\ result' = find_route_arrival_by(schedules, r.from_station_id, r.to_station_id,
                                            r.departure_time, r.day_type)
    /\ pc' = "arrived"
    /\ UNCHANGED <<schedules, storeFrame>>

\* MetroRouter(db).find_route(from, to, departure_time) on a router made for
\* the call, for the same journeys and times as the arrive-by requests
RouteDepartAt ==
    /\ \E r \in ArrivalRequests :
        /\ request' = r
        /\ result' = find_route(schedules, r.from_station_id, r.to_station_id,
                                r.departure_time, r.day_type)
    /\ pc' = "done"
    /\ UNCHANGED <<schedules, storeFrame>>

StoreNext ==
    \/ SaveSchedule
    \/ SaveSchedules
    \/ SaveSchedulesRaises
    \/ IsMetroOpen
    \/ GetNextDepartures
    \/ GetPreviousDepartures
    \/ RouteArrivalBy
    \/ RouteDepartAt

StoreSpec == StoreInit /\ [][StoreNext]_vars

(***************************************************************************)
(* The memoized lookups of one router (router.py:443-473) over a store     *)
(* that no one writes to.                                                  *)
(***************************************************************************)
\* Misses after which the runs stop adding entries to the caches
MaxCached == 3

\* Variant of _get_next_departures whose key lacks the minute
MetroRouter_get_next_departures_HourKey(cache, sched, station_id, direction_station_id, day_type, after_time, limit) ==
    LET key == <<station_id, direction_station_id, day_type, after_time \div 3600, 0, limit>>
    IN  IF key \in DOMAIN cache
        THEN [result |-> cache[key], cache |-> cache, hit |-> TRUE]
        ELSE LET got == get_next_departures(sched, station_id, direction_station_id,
                                            day_type, after_time, limit)
             IN  [result |-> got,
                  cache |-> [k \in DOMAIN cache \cup {key} |->
                                IF k = key THEN got ELSE cache[k]],
                  hit |-> FALSE]

\* MetroRouter._get_next_departures with its cache: what it returns and the
\* cache it leaves; after_time is a dt.time
MetroRouter_get_next_departures(cache, sched, station_id, direction_station_id, day_type, after_time, limit) ==
    LET key == <<station_id, direction_station_id, day_type,
                 after_time \div 3600, (after_time % 3600) \div 60, limit>>
    IN  IF key \in DOMAIN cache
        THEN [result |-> cache[key], cache |-> cache, hit |-> TRUE]
        ELSE LET got == get_next_departures(sched, station_id, direction_station_id,
                                            day_type, after_time, limit)
             IN  [result |-> got,
                  cache |-> [k \in DOMAIN cache \cup {key} |->
                                IF k = key THEN got ELSE cache[k]],
                  hit |-> FALSE]

\* MetroRouter._get_previous_departures with its cache
MetroRouter_get_previous_departures(cache, sched, station_id, direction_station_id, day_type, before_time, limit) ==
    LET key == <<station_id, direction_station_id, day_type,
                 before_time \div 3600, (before_time % 3600) \div 60, limit>>
    IN  IF key \in DOMAIN cache
        THEN [result |-> cache[key], cache |-> cache, hit |-> TRUE]
        ELSE LET got == get_previous_departures(sched, station_id, direction_station_id,
                                                day_type, before_time, limit)
             IN  [result |-> got,
                  cache |-> [k \in DOMAIN cache \cup {key} |->
                                IF k = key THEN got ELSE cache[k]],
                  hit |-> FALSE]

\* The stores of the lookup runs: rows toward k3 at k1 and at k2
CacheTables ==
    {save_schedules(<<>>, <<StationSchedule("k1", "k3", "weekday",
                                            <<Entry(5, 40), Entry(6, 10), Entry(23, 20)>>),
                            StationSchedule("k2", "k3", "weekday", es)>>).rows :
        es \in {<<Entry(6, 10), Entry(5, 40)>>, <<Entry(5, 41)>>}}

\* Stations the lookups ask about
CacheStations == {"k1", "k2"}

\* Times of day of the lookups: 05:40:00, 05:40:30, 05:41:00 and 06:10:00
CacheTimes == {ClockTime(5, 40), ClockTime(5, 40) + 30, ClockTime(5, 41), ClockTime(6, 10)}

\* limit of _calculate_arrival_time and of _find_departure_before
CacheLimits == {1, DEPARTURE_SEARCH_LIMIT}

Cached == Cardinality(DOMAIN _next_departure_cache)
            + Cardinality(DOMAIN _previous_departure_cache)

cacheFrame == <<message, state, data, reply, clock, active_routes, reminder_kb,
                pending_reminders, tasks, sent, reminders, armed, storageVars>>

\* MetroRouter(db) has been constructed over a store with rows
CacheInit ==
    /\ schedules \in CacheTables
    /\ pc = "idle"
    /\ request = NoRequest
    /\ result = NoResult
    /\ message = None
    /\ state = None
    /\ data = EmptyData
    /\ reply = NoReply
    /\ clock = StartClock
    /\ active_routes = <<>>
    /\ reminder_kb = <<>>
    /\ pending_reminders = <<>>
    /\ tasks = {}
    /\ sent = <<>>
    /\ reminders = {}
    /\ armed = <<>>
    /\ fsm_state = <<>>
    /\ calls = <<>>
    /\ _next_departure_cache = <<>>
    /\ _previous_departure_cache = <<>>

\* router._get_next_departures(station_id, direction_station_id, day_type,
\* after_time, limit)
CachedNextDepartures ==
    /\ \E sid \in CacheStations, after_time \in CacheTimes, limit \in CacheLimits :
         \E r \in {MetroRouter_get_next_departures(_next_departure_cache, schedules,
                                                   sid, "k3", "weekday", after_time, limit)} :
            /\ r.hit \/ Cached < MaxCached
            /\ request' = [op |-> "_get_next_departures", station_id |-> sid,
                           direction_station_id |-> "k3", day_type |-> "weekday",
                           time |-> after_time, limit |-> limit]
            /\ result' = [kind |-> "entries", entries |-> r.result, hit |-> r.hit]
            /\ _next_departure_cache' = r.cache
    /\ pc' = "_get_next_departures"
    /\ UNCHANGED <<schedules, _previous_departure_cache, cacheFrame>>

\* router._get_previous_departures(station_id, direction_station_id,
\* day_type, before_time, limit)
CachedPreviousDepartures ==
    /\ \E sid \in CacheStations, before_time \in CacheTimes, limit \in CacheLimits :
         \E r \in {MetroRouter_get_previous_departures(_previous_departure_cache, schedules,
                                                       sid, "k3", "weekday", before_time,
                                                       limit)} :
            /\ r.hit \/ Cached < MaxCached
            /\ request' = [op |-> "_get_previous_departures", station_id |-> sid,
                           direction_station_id |-> "k3", day_type |-> "weekday",
                           time |-> before_time, limit |-> limit]
            /\ result' = [kind |-> "entries", entries |-> r.result, hit |-> r.hit]
            /\ _previous_departure_cache' = r.cache
    /\ pc' = "_get_previous_departures"
    /\ UNCHANGED <<schedules, _next_departure_cache, cacheFrame>>

CacheNext ==
    \/ CachedNextDepartures
    \/ CachedPreviousDepartures

CacheSpec == CacheInit /\ [][CacheNext]_vars

(***************************************************************************)
(* Path queries on the graph (graph.py): callers of find_shortest_path.    *)
(***************************************************************************)
\* Station.name_ua, character by character: the name of k1 is part of the
\* name of k2, and the name of k3 holds an apostrophe
name_ua ==
    [k1 |-> <<"A", "b">>, k2 |-> <<"A", "b", "c">>, k3 |-> <<"M", "'", "a">>,
     s1 |-> <<"C", "d">>, s2 |-> <<"D", "e">>, s3 |-> <<"E", "f">>,
     o1 |-> <<"F", "g">>, o2 |-> <<"G", "h">>, o3 |-> <<"H", "i">>]

\* self.stations.values(): the stations in the order create_stations adds them
StationOrder == StationsByLine["K"] \o StationsByLine["S"] \o StationsByLine["O"]

UpperCase == <<"A", "B", "C", "D", "E", "F", "G", "H", "M", "O", "Z">>
LowerCase == <<"a", "b", "c", "d", "e", "f", "g", "h", "m", "o", "z">>

\* str.lower()
lower(chars) ==
    [i \in 1..Len(chars) |->
        IF \E j \in 1..Len(UpperCase) : UpperCase[j] = chars[i]
        THEN LowerCase[CHOOSE j \in 1..Len(UpperCase) : UpperCase[j] = chars[i]]
        ELSE chars[i]]

\* name_value.replace("'", "").replace("«", "").replace("»", "").strip()
normalized(chars) == strip(SelectSeq(chars, LAMBDA c : c \notin {"'", "«", "»"}))

\* a in b, for strings
IsSubstring(a, b) ==
    \E i \in 0..(Len(b) - Len(a)) : SubSeq(b, i + 1, i + Len(a)) = a

\* dict[key] = value on a dictionary held as a function
IndexSet(index, key, value) ==
    [k \in DOMAIN index \cup {key} |-> IF k = key THEN value ELSE index[k]]

RECURSIVE IndexNames(_, _)
\* The first loop of _build_name_index for "ua": each station under its
\* lower-cased name and, when it differs, under its normalized name
IndexNames(index, i) ==
    IF i > Len(StationOrder) THEN index
    ELSE LET name_value == lower(name_ua[StationOrder[i]])
             named == IndexSet(index, name_value, StationOrder[i])
         IN  IndexNames(IF normalized(name_value) # <<>> /\ normalized(name_value) # name_value
                        THEN IndexSet(named, normalized(name_value), StationOrder[i])
                        ELSE named, i + 1)

RECURSIVE IndexAliases(_, _, _)
\* The second loop of _build_name_index: each alias whose resolved name is
\* in the index is added under its lower-cased, stripped form
IndexAliases(index, aliases, i) ==
    IF i > Len(aliases) THEN index
    ELSE LET alias_lower == strip(lower(aliases[i].alias))
             resolved_lower == strip(lower(aliases[i].resolved))
         IN  IndexAliases(IF resolved_lower \in DOMAIN index
                          THEN IndexSet(index, alias_lower, index[resolved_lower])
                          ELSE index, aliases, i + 1)

\* _build_name_index: the "ua" index of a graph whose data holds `aliases`
_build_name_index(aliases) == IndexAliases(IndexNames(<<>>, 1), aliases, 1)

\* The partial match of find_station_by_name: the first station whose name
\* holds the text or is held by it
PartialMatch(name_lower) ==
    IF \E i \in 1..Len(StationOrder) :
          \/ IsSubstring(name_lower, lower(name_ua[StationOrder[i]]))
          \/ IsSubstring(lower(name_ua[StationOrder[i]]), name_lower)
    THEN StationOrder[CHOOSE i \in 1..Len(StationOrder) :
            /\ \/ IsSubstring(name_lower, lower(name_ua[StationOrder[i]]))
               \/ IsSubstring(lower(name_ua[StationOrder[i]]), name_lower)
            /\ \A j \in 1..(i - 1) :
                  /\ ~IsSubstring(name_lower, lower(name_ua[StationOrder[j]]))
                  /\ ~IsSubstring(lower(name_ua[StationOrder[j]]), name_lower)]
    ELSE None

\* find_station_by_name with the partial match tried before the index
MetroGraph_find_station_by_name_PartialFirst(index, name) ==
    IF PartialMatch(strip(lower(name))) # None THEN PartialMatch(strip(lower(name)))
    ELSE IF strip(lower(name)) \in DOMAIN index THEN index[strip(lower(name))]
    ELSE None

\* MetroGraph.find_station_by_name(name, "ua") over the characters of the
\* name: the index first, then the partial match
MetroGraph_find_station_by_name(index, name) ==
    IF strip(lower(name)) \in DOMAIN index THEN index[strip(lower(name))]
    ELSE PartialMatch(strip(lower(name)))

\* Keys of the alias table: part of the name of k1, a name of its own, a
\* name with blanks round it
AliasKeys == {<<"B">>, <<"O", "l", "d">>, <<" ", "Z", " ">>}

\* Canonical names the aliases resolve to
AliasTargets == {name_ua["k2"], name_ua["k3"], name_ua["s1"], name_ua["s3"]}

\* Alias tables of up to two entries, in the order of the data file
AliasTables ==
    {<<>>}
    \cup {<<[alias |-> a, resolved |-> c]>> : a \in AliasKeys, c \in AliasTargets}
    \cup {t \in {<<[alias |-> a, resolved |-> c], [alias |-> b, resolved |-> d]>> :
                    a \in AliasKeys, b \in AliasKeys, c \in AliasTargets, d \in AliasTargets} :
            t[1].alias # t[2].alias}

\* The index of each alias table, built once
NameIndexes == [aliases \in AliasTables |-> _build_name_index(aliases)]

\* Names looked up besides the aliases and their targets
LookupNames == {<<"b">>, <<"m", "a">>, <<"X">>, <<"A", "b", "c", "d">>}

graphFrame == <<schedules, message, state, data, reply, clock, active_routes, reminder_kb,
                pending_reminders, tasks, sent, reminders, armed, storageVars, cacheVars>>

\* MetroGraph() has been built from the stations
GraphInit ==
    /\ schedules = <<>>
    /\ pc = "idle"
    /\ request = NoRequest
    /\ result = NoResult
    /\ message = None
    /\ state = None
    /\ data = EmptyData
    /\ reply = NoReply
    /\ clock = StartClock
    /\ active_routes = <<>>
    /\ reminder_kb = <<>>
    /\ pending_reminders = <<>>
    /\ tasks = {}
    /\ sent = <<>>
    /\ reminders = {}
    /\ armed = <<>>
    /\ fsm_state = <<>>
    /\ calls = <<>>
    /\ _next_departure_cache = <<>>
    /\ _previous_departure_cache = <<>>

\* graph.find_shortest_path(start_id, end_id)
FindShortestPath ==
    /\ \E a \in RequestIds, b \in RequestIds :
        /\ request' = [op |-> "find_shortest_path", start_id |-> a, end_id |-> b]
        /\ result' = ShortestPaths[a, b]
    /\ pc' = "find_shortest_path"
    /\ UNCHANGED graphFrame

\* A caller asks for the path from a to b and for the two paths by way of c
FindShortestPathVia ==
    /\ \E a \in StationIds, b \in StationIds, c \in StationIds :
        /\ request' = [op |-> "via", start_id |-> a, end_id |-> b, via_id |-> c]
        /\ result' = [kind |-> "via", whole |-> ShortestPaths[a, b],
                      first |-> ShortestPaths[a, c],
                      second |-> ShortestPaths[c, b]]
    /\ pc' = "via"
    /\ UNCHANGED graphFrame

\* MetroGraph() is built from data that holds `aliases`, and a name is
\* looked up in Ukrainian
FindStationByName ==
    /\ \E aliases \in {t \in AliasTables : Len(t) <= 1}, name \in LookupNames \cup AliasTargets :
        /\ request' = [op |-> "find_station_by_name", aliases |-> aliases, name |-> name]
        /\ result' = [kind |-> "station",
                      station |-> MetroGraph_find_station_by_name(NameIndexes[aliases], name)]
    /\ pc' = "find_station_by_name"
    /\ UNCHANGED graphFrame

\* MetroGraph() is built from data that holds `aliases`; an alias and the
\* name it resolves to are looked up in Ukrainian
FindStationByAlias ==
    /\ \E aliases \in AliasTables \ {<<>>} :
        \E i \in 1..Len(aliases) :
            /\ request' = [op |-> "alias", aliases |-> aliases, name |-> aliases[i].alias,
                           resolved |-> aliases[i].resolved]
            /\ result' = [kind |-> "alias",
                          station |-> MetroGraph_find_station_by_name(NameIndexes[aliases],
                                                                  aliases[i].alias),
                          canonical |-> MetroGraph_find_station_by_name(NameIndexes[aliases],
                                                                    aliases[i].resolved)]
    /\ pc' = "alias"
    /\ UNCHANGED graphFrame

GraphNext ==
    \/ FindShortestPath
    \/ FindShortestPathVia
    \/ FindStationByName
    \/ FindStationByAlias

GraphSpec == GraphInit /\ [][GraphNext]_vars

(***************************************************************************)
(* Properties of the conversation and of the reminders.                    *)
(***************************************************************************)
\* C1: in every conversation state a message equal to the Cancel button text
\* leaves the session in the initial state (no state) with empty data.
C1_AsStated ==
    [][(message' = CANCEL /\ state # None) => (state' = None /\ data' = EmptyData)]_vars

\* C2: the message of a reminder that the user cancelled is never sent,
\* whatever the user does afterwards.
C2_AsStated ==
    \A j \in 1..Len(sent) : ~armed[sent[j].task].cancelled

\* C3: there are never two timers waiting to fire for the same user.
C3_AsStated ==
    \A u \in Users : Cardinality({t \in tasks : t.user_id = u}) <= 1

\* C4: arming replaces the user's earlier reminder, so every reminder
\* delivered is the one its user armed most recently before the delivery.
C4_AsStated ==
    \A j \in 1..Len(sent) : sent[j].task = LatestArm(sent[j].user_id, sent[j].arms)

\* Deliveries of the reminder armed by the i-th arm callback
Deliveries(i) == {j \in 1..Len(sent) : sent[j].task = i}

\* The reminder of the i-th arm callback was armed with a remind time in the
\* future, is its user's latest and was not cancelled
Standing(i) ==
    /\ armed[i].remind_at > armed[i].armed_at
    /\ ~armed[i].cancelled
    /\ i = LatestArm(armed[i].user_id, Len(armed))

\* C5: once its remind time has passed, a reminder armed with a remind time
\* in the future and not cancelled has been delivered exactly once, at its
\* remind time; its record is inactive and its user has no pending entry.
C5_AsStated ==
    \A i \in 1..Len(armed) :
        (Standing(i) /\ ~armed[i].restarted /\ clock > armed[i].remind_at) =>
            /\ Cardinality(Deliveries(i)) = 1
            /\ \A j \in Deliveries(i) : sent[j].at = armed[i].remind_at
            /\ \E r \in reminders : r.user_id = armed[i].user_id
                                    /\ r.remind_at = armed[i].remind_at /\ ~r.active
            /\ armed[i].user_id \notin DOMAIN pending_reminders

\* C6: after a restart and the restore pass, a reminder armed with a remind
\* time still in the future is pending again, with a timer set to its
\* remind time.
C6_AsStated ==
    \A i \in 1..Len(armed) :
        (Standing(i) /\ armed[i].restarted /\ armed[i].remind_at > clock) =>
            /\ armed[i].user_id \in DOMAIN pending_reminders
            /\ \E t \in tasks : t.user_id = armed[i].user_id /\ t.wake = armed[i].remind_at

(***************************************************************************)
(* Properties of depart-at routing.                                        *)
(***************************************************************************)
\* Day type a finished request was served with
RequestDay ==
    IF request.day_type = None THEN _get_day_type(request.departure_time)
    ELSE request.day_type

\* Stations reachable from the stations in `seen` over the edges of `nodes`
RECURSIVE ReachableFrom(_)
ReachableFrom(seen) ==
    LET more == seen \cup {e.to_station_id : e \in UNION {nodes[n] : n \in seen}}
    IN  IF more = seen THEN seen ELSE ReachableFrom(more)

\* A graph path from a to b exists
PathExists(a, b) ==
    /\ a \in StationIds
    /\ b \in StationIds
    /\ b \in ReachableFrom({a})

RequestOpen == is_metro_open(schedules, RequestDay, TimeOf(request.departure_time))

RequestPathExists == PathExists(request.from_station_id, request.to_station_id)

\* Terminal a train segment heads to
SegmentDirection(seg) ==
    IF stations[seg.to_station].order > stations[seg.from_station].order
    THEN _get_line_terminals[stations[seg.from_station].line][2]
    ELSE _get_line_terminals[stations[seg.from_station].line][1]

\* Segment i of the route is the first of a run on a line
Boards(route, i) ==
    /\ ~route.segments[i].is_transfer
    /\ (i = 1 \/ route.segments[i - 1].is_transfer)

\* The boarding lookup of segment i: at its origin, from the minute the
\* traveller got there
BoardingLookup(route, i) ==
    LET seg == route.segments[i]
        at == IF i = 1 THEN request.departure_time ELSE route.segments[i - 1].arrival_time
    IN  get_next_departures(schedules, seg.from_station, SegmentDirection(seg), RequestDay,
                            ClockTime(HourOf(at), MinuteOf(at)), 1)

\* The arrival lookup of train segment i: at its destination, from the
\* minute the train left
ArrivalLookup(route, i) ==
    LET seg == route.segments[i]
    IN  get_next_departures(schedules, seg.to_station, SegmentDirection(seg), RequestDay,
                            ClockTime(HourOf(seg.departure_time), MinuteOf(seg.departure_time)), 1)

SegmentSum(route) == SumSeq([i \in 1..Len(route.segments) |-> route.segments[i].duration_minutes])

\* C7 (as stated): a depart-at request at a time when the metro is closed
\* fails with MetroClosed for every pair of endpoint ids, and None is
\* returned only when the metro is open and no path exists.
C7_AsStated ==
    pc = "done" =>
        /\ (~RequestOpen => result.kind = "MetroClosed")
        /\ (result.kind = "None" => RequestOpen /\ ~RequestPathExists)

\* C7 (amended): the graph-path lookup comes first.  None is returned exactly
\* when no graph path joins the endpoints, whatever the service hours; when a
\* path exists and the metro is closed at the desired departure, the request
\* fails with MetroClosed.
C7_PathLookupFirst ==
    pc = "done" =>
        /\ (result.kind = "None" <=> ~RequestPathExists)
        /\ (RequestPathExists /\ ~RequestOpen => result.kind = "MetroClosed")

\* A closed-hours request between unknown endpoints returned None
C7_Witness ==
    /\ pc = "done"
    /\ ~RequestOpen
    /\ ~RequestPathExists
    /\ result.kind = "None"

\* C8 (as stated): the final arrival of a returned depart-at route lies
\* between the first and the last departure of the day type.
C8_AsStated ==
    (/\ pc = "done"
     /\ result.kind = "route"
     /\ result.arrival_time # NoTime
     /\ get_first_departure_time(schedules, RequestDay) # NoTime)
    => /\ get_first_departure_time(schedules, RequestDay) <= TimeOf(result.arrival_time)
       /\ TimeOf(result.arrival_time) <= get_last_departure_time(schedules, RequestDay)

\* C8 (amended): the arrival check applies the same 90-minute early planning
\* window as the departure check.  The final arrival of a returned depart-at
\* route lies between 90 minutes before the first departure and the last
\* departure of the day type.
C8_ArrivalWithinPlanningWindow ==
    (/\ pc = "done"
     /\ result.kind = "route"
     /\ result.arrival_time # NoTime
     /\ get_first_departure_time(schedules, RequestDay) # NoTime)
    => /\ get_first_departure_time(schedules, RequestDay) - EARLY_PLANNING_MINUTES * 60
              <= TimeOf(result.arrival_time)
       /\ TimeOf(result.arrival_time) <= get_last_departure_time(schedules, RequestDay)

\* A returned route arrives before the first departure of its day type
C8_Witness ==
    /\ pc = "done"
    /\ result.kind = "route"
    /\ result.arrival_time # NoTime
    /\ get_first_departure_time(schedules, RequestDay) # NoTime
    /\ TimeOf(result.arrival_time) < get_first_departure_time(schedules, RequestDay)

\* C9 (as stated): no returned route contains a hop at whose boarding or
\* arrival station the next-departure lookup found no entry.
C9_AsStated ==
    (pc = "done" /\ result.kind = "route") =>
        \A i \in 1..Len(result.segments) :
            ~result.segments[i].is_transfer =>
                /\ (Boards(result, i) => BoardingLookup(result, i) # <<>>)
                /\ ArrivalLookup(result, i) # <<>>

\* C9 (amended): only a boarding lookup that finds no entry fails the request
\* with MetroClosed.  A hop whose arrival lookup finds no entry stays in
\* the returned route with the fallback travel time of 2 minutes.
C9_OnlyBoardingLookupFails ==
    (pc = "done" /\ result.kind = "route") =>
        \A i \in 1..Len(result.segments) :
            ~result.segments[i].is_transfer =>
                /\ (Boards(result, i) => BoardingLookup(result, i) # <<>>)
                /\ (ArrivalLookup(result, i) = <<>> =>
                        /\ result.segments[i].duration_minutes = 2
                        /\ result.segments[i].arrival_time
                              = result.segments[i].departure_time + 120)

\* A returned route has a hop whose arrival lookup found no entry
C9_Witness ==
    /\ pc = "done"
    /\ result.kind = "route"
    /\ \E i \in 1..Len(result.segments) :
        /\ ~result.segments[i].is_transfer
        /\ ArrivalLookup(result, i) = <<>>

IsTrainHop(seg) ==
    /\ ~seg.is_transfer
    /\ stations[seg.from_station].line = stations[seg.to_station].line
    /\ \/ stations[seg.from_station].order - stations[seg.to_station].order = 1
       \/ stations[seg.to_station].order - stations[seg.from_station].order = 1

\* A transfer: three minutes from a station to its transfer_to partner
IsTransferWalk(seg) ==
    /\ seg.is_transfer
    /\ stations[seg.from_station].transfer_to = seg.to_station
    /\ seg.duration_minutes = 3

\* C11: every segment of a returned route, depart-at or arrive-by, is a
\* train hop between neighbouring stations of one line or a 3 minute
\* transfer to the transfer_to partner, and num_transfers counts the
\* transfer segments.
C11_SegmentsAreHopsOrTransfers ==
    (pc \in {"done", "arrived"} /\ result.kind = "route") =>
        /\ \A i \in 1..Len(result.segments) :
              IsTrainHop(result.segments[i]) \/ IsTransferWalk(result.segments[i])
        /\ result.num_transfers
              = Cardinality({i \in 1..Len(result.segments) : result.segments[i].is_transfer})

\* An arrive-by request returned a route with train hops and a transfer
C11_Witness ==
    /\ pc = "arrived"
    /\ result.kind = "route"
    /\ \E i, j \in 1..Len(result.segments) :
        /\ result.segments[i].is_transfer
        /\ ~result.segments[j].is_transfer

(***************************************************************************)
(* Properties of input handling in the conversation.                       *)
(***************************************************************************)
\* States of the three flows whose prompt offers a keyboard of choices
MenuStates ==
    (DOMAIN RouteHandlers \cup DOMAIN ScheduleHandlers \cup DOMAIN StationsHandlers)
    \ {"RouteStates:waiting_for_custom_time"}

\* The choices the prompt of menu state `st` offers
OfferedChoices(st, d) ==
    IF st \in {"RouteStates:waiting_for_from_line", "RouteStates:waiting_for_to_line",
               "ScheduleStates:waiting_for_line", "StationsStates:waiting_for_line"}
    THEN SeqToSet(valid_lines)
    ELSE IF st \in {"RouteStates:waiting_for_from_station",
                    "RouteStates:waiting_for_to_station",
                    "ScheduleStates:waiting_for_station"}
    THEN SeqToSet(Get(d, "valid_stations", <<>>))
    ELSE IF st = "RouteStates:waiting_for_time_choice"
    THEN SeqToSet(TIME_CHOICES)
    ELSE SeqToSet(valid_day_types)

\* The station names of the line stored under `line_key`
StationsOfStoredLine(d, line_key) ==
    SeqToSet(get_stations_by_line(Get(d, line_key, None)))

\* The stations stored in the session belong to the lines selected for them
\* and differ from each other
StoredStationsValid(d) ==
    /\ Len(d["from_station"]) > 0 =>
          Get(d, "from_station", None) \in StationsOfStoredLine(d, "from_line")
    /\ Len(d["to_station"]) > 0 =>
          /\ Get(d, "to_station", None) \in StationsOfStoredLine(d, "to_line")
          /\ Get(d, "to_station", None) # Get(d, "from_station", None)

\* C12 (as stated): in a menu state a text that is neither an offered
\* choice, nor Back or Cancel, nor a command leaves state and data as they
\* were; the stored from-station and to-station are stations of their
\* selected lines and differ.
C12_AsStated ==
    [][/\ (/\ state \in MenuStates
           /\ message' \notin OfferedChoices(state, data) \cup {BACK, CANCEL} \cup Commands)
          => (state' = state /\ data' = data)
       /\ StoredStationsValid(data')]_vars

\* The state a flow was in before it entered `st`; the first state of a flow
\* comes from the main menu
PrecedingState(st) ==
    CASE st = "RouteStates:waiting_for_from_station" -> "RouteStates:waiting_for_from_line"
      [] st = "RouteStates:waiting_for_to_line" -> "RouteStates:waiting_for_from_station"
      [] st = "RouteStates:waiting_for_to_station" -> "RouteStates:waiting_for_to_line"
      [] st = "RouteStates:waiting_for_time_choice" -> "RouteStates:waiting_for_to_station"
      [] st = "RouteStates:waiting_for_day_type" -> "RouteStates:waiting_for_time_choice"
      [] st = "RouteStates:waiting_for_custom_time" -> "RouteStates:waiting_for_day_type"
      [] st = "ScheduleStates:waiting_for_station" -> "ScheduleStates:waiting_for_line"
      [] st = "ScheduleStates:waiting_for_day_type" -> "ScheduleStates:waiting_for_station"
      [] OTHER -> None

\* C13 (as stated): in the route and schedule flows Back moves to the
\* preceding state, and the keyboard then shown offers exactly the choices
\* that state accepts.
C13_AsStated ==
    [][(message' = BACK /\ state \in DOMAIN RouteHandlers \cup DOMAIN ScheduleHandlers)
          => /\ state' = PrecedingState(state)
             /\ state' \in MenuStates
                   => SeqToSet(reply'.items) = OfferedChoices(state', data')]_vars

\* C14 (as stated): whatever state the session is in, after /start it is in
\* the initial state: no FSM state and no collected data.
C14_AsStated ==
    [][message' = "/start" => (state' = None /\ data' = EmptyData)]_vars

\* C15 (as stated): every message is answered, in every state: no message
\* is left without a handler that matches it.
C15_AsStated ==
    message # None => reply # NoReply

(***************************************************************************)
(* Properties of the reminder records.                                     *)
(***************************************************************************)
\* C16 (as stated): between handler steps a user has a pending in-memory
\* reminder exactly when the user has an active reminder record.
C16_AsStated ==
    \A u \in Users :
        (u \in DOMAIN pending_reminders) <=> (\E r \in reminders : r.user_id = u /\ r.active)

\* A reminder the restore pass must drop: its time has come or its station
\* is unknown
Lapsed(r, now_) == r.remind_at <= now_ \/ r.station_id \notin StationIds

\* The live reminder of the user of `r` with the latest remind time
LatestLive(rows, r, now_) ==
    LastActiveRow({q \in rows : q.active /\ ~Lapsed(q, now_)}, r.user_id)

OtherRowsKept(key) ==
    \A q \in StorageKeys \ {key} :
        /\ q \in DOMAIN fsm_state' <=> q \in DOMAIN fsm_state
        /\ q \in DOMAIN fsm_state => fsm_state'[q] = fsm_state[q]

\* C18: set_state changes only the state of the key's session and leaves its
\* stored data as it was, set_data changes only the data and leaves the
\* stored state as it was; when the key has no row yet the row is created
\* with empty data, respectively with no state.
C18_SetStateSetDataFrames ==
    [][/\ pc' = "set_state" =>
            /\ get_state(fsm_state', request'.key) = request'.state
            /\ get_data(fsm_state', request'.key) = get_data(fsm_state, request'.key)
            /\ request'.key \in DOMAIN fsm_state' 
            /\ IF request'.key \in DOMAIN fsm_state
               THEN fsm_state'[request'.key].data = fsm_state[request'.key].data
               ELSE fsm_state'[request'.key].data = json_dumps(EmptyDict)
            /\ OtherRowsKept(request'.key)
       /\ pc' = "set_data" =>
            /\ get_data(fsm_state', request'.key) = request'.data
            /\ get_state(fsm_state', request'.key) = get_state(fsm_state, request'.key)
            /\ request'.key \in DOMAIN fsm_state' 
            /\ OtherRowsKept(request'.key)]_vars

\* set_state has just changed the state of a session that holds data
C18_Witness ==
    /\ pc = "set_state"
    /\ request.state # None
    /\ get_data(fsm_state, request.key) # EmptyDict

\* C19: update_data leaves the stored data equal to the previous data
\* overridden by the patch and returns it, leaves the state alone, and of
\* the update_data calls that have run on a key since it was last written
\* otherwise, the stored data has the keys of every patch.
C19_UpdateDataMerges ==
    [][/\ pc' = "update_data" =>
            /\ get_data(fsm_state', request'.key)
                  = dict_update(get_data(fsm_state, request'.key), request'.patch)
            /\ result'.stored = get_data(fsm_state', request'.key)
            /\ get_state(fsm_state', request'.key) = get_state(fsm_state, request'.key)
            /\ OtherRowsKept(request'.key)
       /\ \A i \in 1..Len(calls') :
            calls'[i].done =>
                DOMAIN calls'[i].patch \subseteq DOMAIN get_data(fsm_state', calls'[i].key)]_vars

\* Two update_data calls with different keys in their patches have both run
\* on one session, which holds the keys of both
C19_Witness ==
    /\ pc = "update_data"
    /\ \E i, j \in 1..Len(calls) :
        /\ calls[i].done /\ calls[j].done
        /\ calls[i].key = calls[j].key
        /\ DOMAIN calls[i].patch # DOMAIN calls[j].patch
        /\ get_data(fsm_state, calls[i].key) = [a |-> 2, b |-> 1]

\* datetime.fromisoformat: the datetime a stored text stands for
fromisoformat(text) == text[1] * SecPerDay + text[2] * 3600 + text[3] * 60 + text[4]

\* C20: cleanup_stale_states(max_age) deletes exactly the rows last updated
\* before now - max_age, keeps every other row as it was, and returns the
\* number of rows it deleted.
C20_CleanupExact ==
    [][pc' = "cleanup_stale_states" =>
          /\ DOMAIN fsm_state' =
                {k \in DOMAIN fsm_state :
                    fromisoformat(fsm_state[k].updated_at) >= clock - request'.max_age}
          /\ \A k \in DOMAIN fsm_state' : fsm_state'[k] = fsm_state[k]
          /\ result'.removed = Cardinality(DOMAIN fsm_state \ DOMAIN fsm_state')]_vars

\* A cleanup has deleted one session and kept one last updated exactly at
\* the cutoff
C20_Witness ==
    /\ pc = "cleanup_stale_states"
    /\ result.removed = 1
    /\ \E k \in DOMAIN fsm_state :
          fromisoformat(fsm_state[k].updated_at) = clock - request.max_age

(***************************************************************************)
(* Callbacks for routes the process no longer holds.                       *)
(***************************************************************************)
\* No button in the chat carries a fingerprint of _active_routes
NoKnownFingerprint == \A b \in Buttons : b.route_key \notin DOMAIN active_routes

NetworkFirst(sched, day_type) ==
    CHOOSE t \in {EntryTime(e) : e \in DayRows(sched, day_type)} :
        \A e \in DayRows(sched, day_type) : t <= EntryTime(e)

NetworkLast(sched, day_type) ==
    CHOOSE t \in {EntryTime(e) : e \in DayRows(sched, day_type)} :
        \A e \in DayRows(sched, day_type) : t >= EntryTime(e)

\* C22 as stated: for every day type with at least one timetable entry,
\* whatever the entries are, is_metro_open is true at the network-wide first
\* departure time, true at the network-wide last departure time, and false
\* one minute after the network-wide last departure time.
C22_AsStated ==
    (pc = "is_metro_open" /\ DayRows(schedules, request.day_type) # {})
        => /\ request.check_time = NetworkFirst(schedules, request.day_type)
                => result.is_open
           /\ request.check_time = NetworkLast(schedules, request.day_type)
                => result.is_open
           /\ request.check_time = (NetworkLast(schedules, request.day_type) + 60) % SecPerDay
                => ~result.is_open

\* The stored entries of the key a departure query names
QueriedRows ==
    Rows(schedules, request.station_id, request.direction_station_id, request.day_type)

\* (hour, minute) of entry e is at or after the time of day t
AtOrAfter(e, t) == EntryTime(e) >= (t \div 60) * 60

\* Sequence s lists distinct entries of `rows`, each (hour, minute) before
\* the next
Ascending(s) == \A i \in 1..(Len(s) - 1) : EntryTime(s[i]) < EntryTime(s[i + 1])

\* C23: get_next_departures returns exactly the stored entries of the key
\* with (hour, minute) at or after after_time, in ascending order, truncated
\* to the first `limit` of them, and never an entry before after_time (no
\* wrap past midnight); with after_time 00:00 and a limit the list does not
\* reach it returns the full entry list.
C23_NextDepartures ==
    pc = "get_next_departures" =>
        LET later == {e \in QueriedRows : AtOrAfter(e, request.time)}
            got == {result.entries[i] : i \in DOMAIN result.entries}
        IN  /\ Ascending(result.entries)
            /\ got \subseteq later
            /\ Len(result.entries) = IF Cardinality(later) <= request.limit
                                     THEN Cardinality(later) ELSE request.limit
            /\ \A e \in later \ got : \A g \in got : EntryTime(g) < EntryTime(e)
            /\ (request.time = 0 /\ request.limit >= Cardinality(QueriedRows))
                  => (got = QueriedRows /\ Len(result.entries) = Cardinality(QueriedRows))

\* A query whose after_time leaves an earlier entry out and whose limit cuts
\* a later one off
C23_Witness ==
    /\ pc = "get_next_departures"
    /\ Len(result.entries) = request.limit
    /\ \E e \in QueriedRows : ~AtOrAfter(e, request.time)
    /\ \E e \in QueriedRows :
          AtOrAfter(e, request.time) /\ \A i \in DOMAIN result.entries : result.entries[i] # e

\* (hour, minute) of entry e is at or before the time of day t
AtOrBefore(e, t) == EntryTime(e) <= (t \div 60) * 60

\* Sequence s lists distinct entries, each (hour, minute) after the next
Descending(s) == \A i \in 1..(Len(s) - 1) : EntryTime(s[i]) > EntryTime(s[i + 1])

\* `entries` is what the contract of get_previous_departures allows for the
\* rows of a key: the rows at or before before_time, latest first, the first
\* `limit` of them
PreviousContract(entries, rows, before_time, limit) ==
    LET earlier == {e \in rows : AtOrBefore(e, before_time)}
        got == {entries[i] : i \in DOMAIN entries}
    IN  /\ Descending(entries)
        /\ got \subseteq earlier
        /\ Len(entries) = IF Cardinality(earlier) <= limit
                          THEN Cardinality(earlier) ELSE limit
        /\ \A e \in earlier \ got : \A g \in got : EntryTime(e) < EntryTime(g)

\* The time train segment i of an arrive-by route has to arrive by: the
\* departure of the segment after it, or the requested time
SegmentDeadline(route, i) ==
    IF i = Len(route.segments) THEN request.departure_time
    ELSE route.segments[i + 1].departure_time

\* The candidates of train segment i: the store's previous departures at its
\* origin toward its terminal, at or before the deadline
CandidateDepartures(route, i) ==
    get_previous_departures(schedules, route.segments[i].from_station,
                            SegmentDirection(route.segments[i]), RequestDay,
                            TimeOf(SegmentDeadline(route, i)), DEPARTURE_SEARCH_LIMIT)

NamedAt(list, k) == {i \in DOMAIN list : _schedule_key(list[i]) = k}

\* The entries the last schedule of `list` with key k gives
GivenFor(list, k) ==
    LET last == CHOOSE i \in NamedAt(list, k) : \A j \in NamedAt(list, k) : j <= i
    IN  {list[last].entries[n] : n \in DOMAIN list[last].entries}

\* C25: save_schedules(list) (and save_schedule, a list of one) is atomic per
\* call.  After a call that returns, the stored entries of every key named
\* in the list are exactly the entries given for it, those of its last
\* schedule in the list when it is named more than once, and the old entries
\* of the key are gone; the entries of every key not named are unchanged.
\* After a call that fails part-way the store is unchanged.
C25_SaveSchedulesAtomic ==
    [][pc' \in {"save_schedules", "save_schedule"} =>
          IF result'.kind = "raised"
          THEN schedules' = schedules
          ELSE \A k \in StoreKeys :
                  Rows(schedules', k[1], k[2], k[3])
                      = IF NamedAt(request'.list, k) # {}
                        THEN GivenFor(request'.list, k)
                        ELSE Rows(schedules, k[1], k[2], k[3])]_vars

\* A call has saved two schedules of one key with different entries, the
\* second of which is what the store holds, next to the rows of another key
C25_Witness ==
    /\ pc = "save_schedules"
    /\ result.kind = "count"
    /\ Len(request.list) = 2
    /\ _schedule_key(request.list[1]) = _schedule_key(request.list[2])
    /\ request.list[1].entries # <<>>
    /\ request.list[2].entries # <<>>
    /\ request.list[1].entries # request.list[2].entries
    /\ \E k \in StoreKeys :
          /\ k = _schedule_key(request.list[2])
          /\ Rows(schedules, k[1], k[2], k[3]) = GivenFor(request.list, k)
    /\ \E k \in StoreKeys :
          /\ k # _schedule_key(request.list[2])
          /\ Rows(schedules, k[1], k[2], k[3]) # {}

(***************************************************************************)
(* Properties of the shortest paths.                                       *)
(***************************************************************************)
\* Weight of the edge from a to b, or Infinity
EdgeWeight(a, b) ==
    IF \E e \in nodes[a] : e.to_station_id = b
    THEN (CHOOSE e \in nodes[a] : e.to_station_id = b).weight
    ELSE Infinity

\* The smaller of two weights
Lesser(x, y) == IF x <= y THEN x ELSE y

\* The least weight of a non-empty set
LeastOf(ws) == CHOOSE w \in ws : \A v \in ws : w <= v

RECURSIVE Relax(_, _)
\* n rounds of relaxation over every edge: d[a, b] becomes the least weight
\* of a walk from a to b with at most n more edges
Relax(d, n) ==
    IF n = 0 THEN d
    ELSE Relax([a \in StationIds, b \in StationIds |->
                    LeastOf({d[a, b]} \cup {Lesser(Infinity, e.weight + d[e.to_station_id, b]) :
                                              e \in nodes[a]})],
               n - 1)

\* The least weight over all paths from a to b, Infinity when there is none
MinWeight ==
    Relax([a \in StationIds, b \in StationIds |-> IF a = b THEN 0 ELSE Infinity],
          Cardinality(StationIds) - 1)

\* C26: find_shortest_path(a, b) returns no path when a or b is not a
\* station id; otherwise it returns a path that starts at a, ends at b, has
\* every consecutive pair of stations joined by a graph edge, and whose
\* total weight is the sum of those edge weights and the minimum over all
\* paths from a to b.
C26_ShortestPath ==
    pc = "find_shortest_path" =>
        IF request.start_id \notin StationIds \/ request.end_id \notin StationIds
        THEN result = NoPath
        ELSE /\ result.kind = "path"
             /\ result.path[1] = request.start_id
             /\ result.path[Len(result.path)] = request.end_id
             /\ \A i \in 1..(Len(result.path) - 1) :
                   \E e \in nodes[result.path[i]] : e.to_station_id = result.path[i + 1]
             /\ result.weight
                   = SumSeq([i \in 1..(Len(result.path) - 1) |->
                                EdgeWeight(result.path[i], result.path[i + 1])])
             /\ result.weight = MinWeight[request.start_id, request.end_id]

\* A path with train hops on two lines and a transfer between them was
\* returned
C26_Witness ==
    /\ pc = "find_shortest_path"
    /\ result.kind = "path"
    /\ \E i \in 2..(Len(result.path) - 2) :
          /\ stations[result.path[i]].transfer_to = result.path[i + 1]
          /\ stations[result.path[i - 1]].line = stations[result.path[i]].line
          /\ stations[result.path[i + 1]].line = stations[result.path[i + 2]].line

\* Station c lies on a path of least weight from a to b
OnShortestPath(a, b, c) == MinWeight[a, c] + MinWeight[c, b] = MinWeight[a, b]

\* C27: for all stations a and b and every station c on a shortest path from
\* a to b, the weight find_shortest_path(a, b) returns is at least the
\* weight of find_shortest_path(a, c) plus that of find_shortest_path(c, b).
C27_TriangleClosure ==
    (/\ pc = "via"
     /\ OnShortestPath(request.start_id, request.end_id, request.via_id))
        => /\ result.whole.kind = "path"
           /\ result.first.kind = "path"
           /\ result.second.kind = "path"
           /\ result.whole.weight >= result.first.weight + result.second.weight

\* The three paths were asked for a station strictly inside a path that
\* changes lines
C27_Witness ==
    /\ pc = "via"
    /\ OnShortestPath(request.start_id, request.end_id, request.via_id)
    /\ request.via_id \notin {request.start_id, request.end_id}
    /\ stations[request.start_id].line # stations[request.end_id].line
    /\ result.whole.kind = "path"
    /\ result.first.weight > 0
    /\ result.second.weight > 0

(***************************************************************************)
(* Properties of the round trip.                                           *)
(***************************************************************************)
\* Route `back` visits the stations of route `out` in reverse order, with
\* its transfer segments at the mirrored positions
Mirrored(out, back) ==
    /\ Len(back.segments) = Len(out.segments)
    /\ \A i \in 1..Len(out.segments) :
          LET o == out.segments[Len(out.segments) + 1 - i]
              b == back.segments[i]
          IN  /\ b.from_station = o.to_station
              /\ b.to_station = o.from_station
              /\ b.is_transfer = o.is_transfer

\* C28: for every station pair (a, b), the route from b to a requested at
\* the arrival time of the route from a to b, when one is returned, is the
\* structural mirror of that route: the same stations in reverse order, with
\* transfer segments at the mirrored positions.
C28_RoundTripMirrored ==
    (pc = "returned" /\ result.back.kind = "route")
        => Mirrored(result.out, result.back)

\* A round trip over a transfer, both ways returned
C28_Witness ==
    /\ pc = "returned"
    /\ result.back.kind = "route"
    /\ \E i, j \in 1..Len(result.back.segments) :
          /\ result.back.segments[i].is_transfer
          /\ ~result.back.segments[j].is_transfer
    /\ request.from_station_id # request.to_station_id

(***************************************************************************)
(* Properties of arrive-by routing.                                        *)
(***************************************************************************)
\* C29: every route returned for an arrive-by request has an arrival time
\* no later than the requested arrival_by time.
C29_ArrivesByTarget ==
    (pc = "arrived" /\ result.kind = "route" /\ result.arrival_time # NoTime)
        => result.arrival_time <= request.departure_time

\* An arrive-by request returned a route that arrives before the target by
\* a train of the timetable
C29_Witness ==
    /\ pc = "arrived"
    /\ result.kind = "route"
    /\ result.arrival_time # NoTime
    /\ result.arrival_time < request.departure_time
    /\ \E i \in 1..Len(result.segments) :
          /\ ~result.segments[i].is_transfer
          /\ \E e \in Rows(schedules, result.segments[i].from_station,
                           SegmentDirection(result.segments[i]), RequestDay) :
                TimeOf(result.segments[i].departure_time) = EntryTime(e)

(***************************************************************************)
(* Properties of requests made before the first train.                     *)
(***************************************************************************)
\* Minutes in seconds of the early planning window
EarlyWindow == EARLY_PLANNING_MINUTES * 60

\* The time of day of the request served lies within the 90 minutes before
\* the network-wide first departure of its day type
InEarlyWindow ==
    /\ DayRows(schedules, RequestDay) # {}
    /\ \E gap \in {NetworkFirst(schedules, RequestDay)
                        - TimeOf(request.departure_time)} :
          gap > 0 /\ gap <= EarlyWindow

\* Index of the first train segment of a route, 0 when it has none
FirstTrain(route) ==
    IF \E i \in 1..Len(route.segments) : ~route.segments[i].is_transfer
    THEN CHOOSE i \in 1..Len(route.segments) :
            /\ ~route.segments[i].is_transfer
            /\ \A j \in 1..(i - 1) : route.segments[j].is_transfer
    ELSE 0

\* The first scheduled departure at the origin of segment seg toward the
\* terminal in its direction of travel, NoTime when there is none
FirstScheduled(seg) ==
    LET rows == Rows(schedules, seg.from_station, SegmentDirection(seg), RequestDay)
    IN  IF rows = {} THEN NoTime
        ELSE CHOOSE t \in {EntryTime(e) : e \in rows} : \A e \in rows : t <= EntryTime(e)

\* C30 as stated: a depart-at request whose time of day falls within the 90
\* minutes before the network-wide first departure is accepted by the
\* service-hours check, and the first train segment of the returned route
\* departs at the first scheduled departure of the boarding station toward
\* the terminal that lies in the direction of travel.
C30_AsStated ==
    (pc = "done" /\ RequestPathExists /\ InEarlyWindow)
        => /\ RequestOpen
           /\ (result.kind = "route" /\ FirstTrain(result) > 0)
                 => TimeOf(result.segments[FirstTrain(result)].departure_time)
                       = FirstScheduled(result.segments[FirstTrain(result)])

(***************************************************************************)
(* Properties of the custom-time prompt.                                   *)
(***************************************************************************)
\* Hour h and minute m written as the pattern admits them: the hour in two
\* digits when padded or above 9, else in one; the minute in two
ClockText(h, m, padded) ==
    (IF padded \/ h > 9 THEN <<Digits[(h \div 10) + 1], Digits[(h % 10) + 1]>>
     ELSE <<Digits[h + 1]>>)
    \o <<":", Digits[(m \div 10) + 1], Digits[(m % 10) + 1]>>

\* Every text that matches the pattern with hour in 0..23 and minute in 0..59
TimesOfDay == {ClockText(h, m, padded) : h \in 0..23, m \in 0..59, padded \in BOOLEAN}

\* The characters of a text the user sent; the texts that are not typed at
\* the custom-time prompt all hold a letter and stand as one
CharsOf(text) == IF text \in DOMAIN CustomTimeTexts THEN CustomTimeTexts[text] ELSE <<"a">>

\* The answers that end a route attempt
RouteAttemptReplies ==
    {"route", "error_metro_closed", "error_route_not_found", "error_station_not_found",
     "error_generic"}

CustomTimeState == "RouteStates:waiting_for_custom_time"

\* C31 (as stated): in the custom-time state an input is accepted as a
\* departure time exactly when it matches the pattern with hour in 0..23
\* and minute in 0..59, and every other input leaves state and data as they
\* were.
C31_AsStated ==
    [][state = CustomTimeState
          => /\ (reply'.text \in RouteAttemptReplies) <=> (CharsOf(message') \in TimesOfDay)
             /\ CharsOf(message') \notin TimesOfDay => (state' = state /\ data' = data)]_vars

\* C31: in the custom-time state an input is accepted as a departure time
\* exactly when, without its surrounding blanks, it matches the pattern with
\* hour in 0..23 and minute in 0..59; every other input except Back, /route
\* and /stats leaves state and data as they were.
C31_CustomTimeAccepted ==
    [][state = CustomTimeState
          => /\ (reply'.text \in RouteAttemptReplies)
                    <=> (strip(CharsOf(message')) \in TimesOfDay)
             /\ (/\ strip(CharsOf(message')) \notin TimesOfDay
                 /\ message' \notin {BACK, "/route", "/stats"})
                    => (state' = state /\ data' = data)]_vars

\* A one-digit hour was accepted and a route was sent
C31_Witness ==
    /\ message = "7:05"
    /\ reply.text = "route"
    /\ state = None

(***************************************************************************)
(* Properties of the housekeeping task.                                    *)
(***************************************************************************)
\* Reminder `id` is active and its remind_at has passed
Overdue(id) == \E r \in reminders : r.id = id /\ r.active /\ r.remind_at < clock

\* Reminder `id` is in the table and inactive
Inactive(id) == \E r \in reminders : r.id = id /\ ~r.active

C33_AsStated ==
    [][process_reminder_wake_raises
          => /\ result'.kind # "TelegramAPIError"
             /\ \A t \in tasks \ tasks' : t.user_id \notin DOMAIN pending_reminders']_vars

(***************************************************************************)
(* Properties of the station name index.                                   *)
(***************************************************************************)
\* The station whose Ukrainian name is `name`, whatever the case of its
\* letters
StationNamed(name) == CHOOSE sid \in StationIds : lower(name_ua[sid]) = strip(lower(name))

\* C34: looking up an alias in Ukrainian returns the same station as looking
\* up the canonical name it maps to, which is the station of that name, and
\* the alias is resolved before any substring matching: a station whose
\* name holds the alias is not returned in its place.
C34_AliasResolution ==
    pc = "alias"
        => /\ result.station = result.canonical
           /\ result.station = StationNamed(request.resolved)

\* An alias that is part of the name of another station, earlier in the
\* station order, was looked up and gave the station it maps to
C34_Witness ==
    /\ pc = "alias"
    /\ request.name = <<"B">>
    /\ request.resolved = name_ua["s1"]
    /\ result.station = "s1"
    /\ PartialMatch(strip(lower(request.name))) = "k1"

(***************************************************************************)
(* Properties of the boarding time.                                        *)
(***************************************************************************)
\* The moment the traveller is on the platform of segment i: the time of
\* the request, or the end of the transfer before the segment
OnPlatform(route, i) ==
    IF i = 1 THEN request.departure_time ELSE route.segments[i - 1].arrival_time

\* The timetable departures of segment i's origin in its direction, on the
\* date the traveller is on the platform and not before that moment
LaterSameDate(route, i) ==
    {d \in {Combine(DateOf(OnPlatform(route, i)), EntryTime(e)) :
                e \in Rows(schedules, route.segments[i].from_station,
                           SegmentDirection(route.segments[i]), RequestDay)} :
        d >= OnPlatform(route, i)}

\* C35 (as stated): each boarding of a depart-at route uses the earliest
\* timetable departure that is not before the moment the traveller is on
\* the platform; a departure of the following day is used only when no
\* departure is left on the same date.
C35_AsStated ==
    (pc = "done" /\ result.kind = "route") =>
        \A i \in 1..Len(result.segments) :
            Boards(result, i) =>
                IF LaterSameDate(result, i) # {}
                THEN /\ result.segments[i].departure_time \in LaterSameDate(result, i)
                     /\ \A d \in LaterSameDate(result, i) :
                            result.segments[i].departure_time <= d
                ELSE DateOf(result.segments[i].departure_time)
                        = DateOf(OnPlatform(result, i)) + 1

(***************************************************************************)
(* Properties of the order of times in a route.                            *)
(***************************************************************************)
\* Times do not run backwards along the segments of `route`
Forward(route) ==
    \A i \in 1..Len(route.segments) :
        /\ route.segments[i].departure_time <= route.segments[i].arrival_time
        /\ i > 1 => route.segments[i - 1].arrival_time <= route.segments[i].departure_time

\* C36 (as stated): in every route the router returns, depart-at or
\* arrive-by, each segment's arrival is not earlier than its departure and
\* each segment's departure is not earlier than the arrival of the segment
\* before it.
C36_AsStated ==
    (pc \in {"done", "arrived"} /\ result.kind = "route") => Forward(result)

(***************************************************************************)
(* Properties of the pending map.                                          *)
(***************************************************************************)
\* C37 (as stated): a user has a pending in-memory reminder entry only
\* while a timer of the user is waiting to fire, also when the reminder was
\* armed with a remind time that had already passed.
C37_AsStated ==
    \A u \in DOMAIN pending_reminders : \E t \in tasks : t.user_id = u

(***************************************************************************)
(* Properties of the end of a route attempt.                               *)
(***************************************************************************)
\* A message that starts a route attempt: a time choice that names a time,
\* or a valid time at the custom-time prompt
StartsRouteAttempt(st, text) ==
    \/ /\ st = "RouteStates:waiting_for_time_choice"
       /\ text \in {"Current time", "-20 min", "-10 min", "+10 min", "+20 min"}
    \/ /\ st = CustomTimeState
       /\ strip(CharsOf(text)) \in TimesOfDay

\* The answers to an input that is not accepted
InvalidInputReplies == {"error_unknown_choice", "error_invalid_time_format", "error_invalid_time"}

\* C38: every route attempt made from the conversation ends with no FSM
\* state and empty data, whatever its outcome, and in the two states that
\* start route attempts a message leaves the session where it was only when
\* it was answered as invalid input.
C38_RouteAttemptEnds ==
    [][/\ StartsRouteAttempt(state, message')
            => /\ state' = None
               /\ data' = EmptyData
               /\ reply'.text \in RouteAttemptReplies
       /\ (/\ state \in {"RouteStates:waiting_for_time_choice", CustomTimeState}
           /\ state' = state)
            => reply'.text \in InvalidInputReplies]_vars

\* A route attempt has ended without a route, and the session is in the
\* initial state
C38_Witness ==
    /\ message = "Current time"
    /\ reply.text \in {"error_station_not_found", "error_generic"}
    /\ state = None
    /\ data = EmptyData

\* The arrival candidate j of train segment i implies: the next departure at
\* the segment's destination at or after the candidate's boarding time
ImpliedArrival(route, i, c, j) ==
    _calculate_arrival_time(schedules, route.segments[i].to_station,
                            SegmentDirection(route.segments[i]), RequestDay,
                            CombineOnOrBefore(SegmentDeadline(route, i), EntryTime(c[j])))

\* The candidates of train segment i that arrive by the segment's deadline
Qualifying(route, i, c) ==
    {j \in DOMAIN c : /\ ImpliedArrival(route, i, c, j) # NoTime
                      /\ ImpliedArrival(route, i, c, j) <= SegmentDeadline(route, i)}

\* C39: every train segment of an arrive-by route boards at the latest of
\* the 5 latest timetable departures at or before its target (the departure
\* of the segment after it, or the requested time for the last one) whose
\* implied arrival is no later than that target; when none of the 5
\* qualifies, the segment arrives at the target and lasts 2 minutes.
C39_LatestQualifying ==
    (pc = "arrived" /\ result.kind = "route") =>
        \A i \in 1..Len(result.segments) :
            result.segments[i].is_transfer
            \/ \E c \in {CandidateDepartures(result, i)} :
                  IF Qualifying(result, i, c) # {}
                  THEN \E j \in Qualifying(result, i, c) :
                          /\ \A k \in Qualifying(result, i, c) : j <= k
                          /\ result.segments[i].departure_time
                                = CombineOnOrBefore(SegmentDeadline(result, i), EntryTime(c[j]))
                  ELSE /\ result.segments[i].arrival_time = SegmentDeadline(result, i)
                       /\ result.segments[i].duration_minutes = FALLBACK_TRAVEL_MINUTES
                       /\ result.segments[i].departure_time
                             = SegmentDeadline(result, i) - FALLBACK_TRAVEL_MINUTES * 60

\* An arrive-by route with a train segment whose latest candidate arrives too
\* late and which boards at an earlier candidate
C39_Witness ==
    /\ pc = "arrived"
    /\ result.kind = "route"
    /\ \E i \in 1..Len(result.segments) :
          /\ ~result.segments[i].is_transfer
          /\ \E c \in {CandidateDepartures(result, i)} :
                /\ Qualifying(result, i, c) # {}
                /\ 1 \notin Qualifying(result, i, c)

\* An arrive-by route with a train segment placed by the fallback although
\* the store has departures at or before its target
C39_FallbackWitness ==
    /\ pc = "arrived"
    /\ result.kind = "route"
    /\ \E i \in 1..Len(result.segments) :
          /\ ~result.segments[i].is_transfer
          /\ \E c \in {CandidateDepartures(result, i)} :
                /\ c # <<>>
                /\ Qualifying(result, i, c) = {}

\* C40: over a store that is not written to, every memoized next-departure
\* and previous-departure lookup of a router returns the entries the store
\* gives for the same station, direction, day type, hour, minute and limit,
\* whatever lookups came before, and so does every entry the caches hold.
C40_MemoizedLookups ==
    /\ pc = "_get_next_departures" =>
          result.entries = get_next_departures(schedules, request.station_id,
                              request.direction_station_id, request.day_type,
                              ClockTime(request.time \div 3600, (request.time % 3600) \div 60),
                              request.limit)
    /\ pc = "_get_previous_departures" =>
          result.entries = get_previous_departures(schedules, request.station_id,
                              request.direction_station_id, request.day_type,
                              ClockTime(request.time \div 3600, (request.time % 3600) \div 60),
                              request.limit)
    /\ \A k \in DOMAIN _next_departure_cache :
          _next_departure_cache[k]
              = get_next_departures(schedules, k[1], k[2], k[3], ClockTime(k[4], k[5]), k[6])
    /\ \A k \in DOMAIN _previous_departure_cache :
          _previous_departure_cache[k]
              = get_previous_departures(schedules, k[1], k[2], k[3], ClockTime(k[4], k[5]), k[6])

\* A lookup at 05:40:30 has been answered from the cache with entries, and
\* both caches hold entries
C40_Witness ==
    /\ pc \in {"_get_next_departures", "_get_previous_departures"}
    /\ result.hit
    /\ result.entries # <<>>
    /\ request.time % 60 # 0
    /\ DOMAIN _next_departure_cache # {}
    /\ DOMAIN _previous_departure_cache # {}

====
